---- MODULE Spec2Model ----
(***************************************************************************)
(* A model of the layout pipeline of ArchFlow AI: the building-code        *)
(* compliance engine (BuildingCodesService), the performance metrics       *)
(* calculator (PerformanceMetricsCalculator) and the export service        *)
(* (ExportService).  Every operator is a translation of the JavaScript     *)
(* function of the same name; a JavaScript object that a function mutates  *)
(* is modelled by the value the operator returns.                          *)
(*                                                                         *)
(* The specifications share the variables:                                 *)
(*   Spec         one call of BuildingCodesService.checkCompliance         *)
(*   SpecMetrics  one call of PerformanceMetricsCalculator.calculateAll-   *)
(*                Metrics, the five score functions evaluated in order     *)
(*   SpecExport   one call of ExportService.exportMultipleFormats          *)
(*   SpecObjects  calls of all the functions on one layout object          *)
(*   SpecConcurrent  calls of checkCompliance and of the score functions   *)
(*                that run interleaved on one layout                       *)
(*   SpecGenerate one call of generateLayoutFromSchedule                   *)
(***************************************************************************)
EXTENDS Integers, Sequences, FiniteSets, TLC

VARIABLES
    layoutData,     \* the LayoutData argument of the call
    codeSettings,   \* checkCompliance: the codeSettings argument
    pc,             \* position of the call being modelled
    applicableCodes,\* checkCompliance: the resolved rule tables
    codeIndex,      \* checkCompliance: index of the next table of the for-of loop
    results,        \* checkCompliance: the results object
    stack,          \* metrics: the JavaScript call stack (function names)
    metrics,        \* metrics: the record calculateAllMetrics is building
    projectInfo,    \* export: the projectInfo argument
    formats,        \* export: the formats argument
    formatIndex,    \* export: index of the next format of the for-of loop
    exportResults,  \* export: the results object, keyed by format
    heap,           \* objects: the objects and arrays allocated, by address
    parameters,     \* objects: the parameters argument of optimizeLayoutParameters
    optimized,      \* objects: the address optimizeLayoutParameters returned
    lastCall,       \* objects: the call made last and how it ended
    calls,          \* concurrency: the running calls, by call number
    scheduleData,   \* generation: the scheduleData argument
    response,       \* generation: what the remote call came to
    generated,      \* generation: the value generateLayoutFromSchedule resolved to
    adjacency,      \* adjacency: the value calculateAdjacencyScore returned
    report,         \* report: the value generateComplianceReport returned
    phase,          \* report: the group of checks runCodeChecks is at
    item,           \* report: index of the next element of the forEach of that group
    clock,          \* store: the value Date.now() returns
    store,          \* store: the projects and layouts of useStore
    projectId,      \* store: the const projectId of onSubmit
    data,           \* store: the form data onSubmit is called with
    download        \* download: how downloadLayoutFile ended

vars == <<layoutData, codeSettings, pc, applicableCodes, codeIndex, results,
          stack, metrics, projectInfo, formats, formatIndex, exportResults,
          heap, parameters, optimized, lastCall, calls,
          scheduleData, response, generated, adjacency, report, phase, item,
          clock, store, projectId, data, download>>

complianceVars == <<codeSettings, applicableCodes, codeIndex, results>>
metricsVars == <<stack, metrics>>
exportVars == <<projectInfo, formats, formatIndex, exportResults>>
objectVars == <<heap, parameters, optimized, lastCall>>
generationVars == <<scheduleData, response, generated>>
\* the variables of the specifications after SpecGenerate
storeVars == <<clock, store, projectId, data>>
otherVars == <<adjacency, report, phase, item, storeVars, download>>

(***************************************************************************)
(* Bounds of the model.                                                    *)
(***************************************************************************)
MaxRooms == 2       \* rooms of a layout
MaxPaths == 2       \* circulation paths of a layout
MaxFormats == 2     \* entries of the formats argument
MaxStack == 4       \* frames the JavaScript call stack holds
MaxOptimizations == 1 \* calls of optimizeLayoutParameters in a behaviour
MaxCalls == 2       \* calls that run interleaved
SqrtScale == 100    \* Math.sqrt is computed to 1 / SqrtScale

(***************************************************************************)
(* JavaScript values.  An optional value is a sequence of length 0         *)
(* (undefined) or 1 (the value).                                           *)
(***************************************************************************)
Undefined == << >>
Some(v) == <<v>>
IsDefined(o) == o /= Undefined
Val(o) == o[1]

Min(a, b) == IF a < b THEN a ELSE b
Max(a, b) == IF a > b THEN a ELSE b

RECURSIVE SeqsUpTo(_, _)
\* all sequences over S of length at most n
SeqsUpTo(S, n) ==
    IF n = 0 THEN {<< >>}
    ELSE LET shorter == SeqsUpTo(S, n - 1)
         IN  shorter \cup {Append(s, x) : s \in {t \in shorter : Len(t) = n - 1}, x \in S}

\* Property names every object literal inherits from Object.prototype: obj[key]
\* is a (truthy) function for each of them although obj has no such own key.
ObjectPrototypeKeys == {"constructor", "toString", "valueOf", "hasOwnProperty"}

(***************************************************************************)
(* The rule registry.                                                      *)
(***************************************************************************)
BUILDING_CODES ==
    [US |->
        [IBC |-> [name |-> "International Building Code", version |-> "2021",
                  rules |-> [corridorWidth |-> [minimum |-> 44],
                             exitWidth |-> [minimum |-> 32],
                             roomArea |-> [office |-> [minimum |-> 80],
                                           meeting |-> [minimum |-> 120],
                                           restroom |-> [minimum |-> 30]],
                             accessibility |-> [doorWidth |-> 32,
                                                corridorWidth |-> 36,
                                                turningSpace |-> 60]]],
         ADA |-> [name |-> "Americans with Disabilities Act", version |-> "2010",
                  rules |-> [corridorWidth |-> [minimum |-> 36],
                             doorWidth |-> [minimum |-> 32],
                             turningSpace |-> [minimum |-> 60],
                             reachRanges |-> [high |-> 48, low |-> 15]]],
         IRC |-> [name |-> "International Residential Code", version |-> "2021",
                  rules |-> [bedroomArea |-> [minimum |-> 70],
                             ceilingHeight |-> [minimum |-> 90],
                             windowArea |-> [minimumPercent |-> 8],
                             hallwayWidth |-> [minimum |-> 36]]]],
     CA |->
        [NBC |-> [name |-> "National Building Code of Canada", version |-> "2020",
                  rules |-> [corridorWidth |-> [minimum |-> 1100],
                             exitWidth |-> [minimum |-> 850]]]]]

\* `rules.x` is truthy
Has(rules, field) == field \in DOMAIN rules

(***************************************************************************)
(* Room names.  A name is a string; Keywords(name) is the set of the       *)
(* substrings tested by the engine that name.toLowerCase() contains.       *)
(***************************************************************************)
Keywords(name) ==
    CASE name = "Office"             -> {"office"}
      [] name = "Conference Room"    -> {"conference"}
      [] name = "Meeting Room"       -> {"meeting"}
      [] name = "Bathroom"           -> {"bathroom"}
      [] name = "Restroom"           -> {"restroom"}
      [] name = "Bedroom"            -> {"bedroom"}
      [] name = "Kitchen"            -> {"kitchen"}
      [] name = "Living Room"        -> {"living"}
      [] name = "Office Kitchenette" -> {"office", "kitchen"}
      [] name = "Kitchen Office"     -> {"office", "kitchen"}
      [] name = "Bathroom Office"    -> {"office", "bathroom"}
      [] name = "Living Room Kitchen" -> {"kitchen", "living"}
      [] name = "Bedroom Restroom"   -> {"restroom", "bedroom"}
      [] name = "Lobby"              -> {}
      [] OTHER                       -> {}

\* name.toLowerCase().includes(word)
Includes(name, word) == word \in Keywords(name)

\* mutant: kitchen is tested before office
inferRoomType_KitchenFirst(roomName) ==
    IF Includes(roomName, "kitchen") THEN "kitchen"
    ELSE IF Includes(roomName, "office") THEN "office"
    ELSE IF Includes(roomName, "meeting") \/ Includes(roomName, "conference") THEN "meeting"
    ELSE IF Includes(roomName, "restroom") \/ Includes(roomName, "bathroom") THEN "restroom"
    ELSE IF Includes(roomName, "bedroom") THEN "bedroom"
    ELSE IF Includes(roomName, "living") THEN "living"
    ELSE "general"

inferRoomType(roomName) ==
    IF Includes(roomName, "office") THEN "office"
    ELSE IF Includes(roomName, "meeting") \/ Includes(roomName, "conference") THEN "meeting"
    ELSE IF Includes(roomName, "restroom") \/ Includes(roomName, "bathroom") THEN "restroom"
    ELSE IF Includes(roomName, "bedroom") THEN "bedroom"
    ELSE IF Includes(roomName, "kitchen") THEN "kitchen"
    ELSE IF Includes(roomName, "living") THEN "living"
    ELSE "general"

requiresTurningSpace(roomName) ==
    \/ Includes(roomName, "restroom")
    \/ Includes(roomName, "bathroom")
    \/ Includes(roomName, "office")
    \/ Includes(roomName, "meeting")
    \/ Includes(roomName, "conference")

(***************************************************************************)
(* Building Codes Service                                                  *)
(*                                                                         *)
(* An Issue is {type, severity, code, location, required, actual, unit};   *)
(* its code `${codeKey}_SUFFIX` is the pair <<codeKey, "SUFFIX">> and its  *)
(* location a record of the parts the template string is built from.  The  *)
(* message of an Issue is text built from its other fields and is left     *)
(* out.  Fields an object literal does not set are given neutral values.   *)
(***************************************************************************)
NoLocation == [label |-> "", index |-> 0, from |-> "", to |-> "", name |-> ""]

PathLocation(label, index, path) ==
    [label |-> label, index |-> index, from |-> path.from, to |-> path.to, name |-> ""]

RoomLocation(room) ==
    [label |-> "", index |-> 0, from |-> "", to |-> "", name |-> room.name]

\* mutant: the checks give their Issues the severity 'warning'
Issue_SeverityWarning(type, codeKey, suffix, location, required, actual, unit) ==
    [type |-> type, severity |-> "warning", code |-> <<codeKey, suffix>>,
     location |-> location, required |-> required, actual |-> actual, unit |-> unit]

Issue(type, codeKey, suffix, location, required, actual, unit) ==
    [type |-> type, severity |-> "critical", code |-> <<codeKey, suffix>>,
     location |-> location, required |-> required, actual |-> actual, unit |-> unit]

ConfigIssue ==
    [type |-> "configuration", severity |-> "error", code |-> <<"CONFIG_ERROR">>,
     location |-> NoLocation, required |-> 0, actual |-> 0, unit |-> ""]

Warning(codeKey, room, turningSpace) ==
    [type |-> "turning_space", severity |-> "warning",
     code |-> <<codeKey, "TURNING_SPACE">>, location |-> RoomLocation(room),
     recommendation |-> turningSpace]

\* the results object checkCompliance creates
NewResults ==
    [status |-> "compliant", issues |-> << >>, warnings |-> << >>,
     summary |-> [totalChecks |-> 0, passed |-> 0, failed |-> 0, warnings |-> 0]]

\* BUILDING_CODES[country] is truthy
CountryDataFound(country) ==
    country \in DOMAIN BUILDING_CODES \/ country \in ObjectPrototypeKeys

\* countryData[codeKey] is truthy
CodeFound(country, codeKey) ==
    \/ country \in DOMAIN BUILDING_CODES /\ codeKey \in DOMAIN BUILDING_CODES[country]
    \/ codeKey \in ObjectPrototypeKeys

\* { key: codeKey, ...countryData[codeKey] }: an inherited member spreads no
\* `rules` property
CodeData(country, codeKey) ==
    IF country \in DOMAIN BUILDING_CODES /\ codeKey \in DOMAIN BUILDING_CODES[country]
    THEN [key |-> codeKey, rules |-> Some(BUILDING_CODES[country][codeKey].rules)]
    ELSE [key |-> codeKey, rules |-> Undefined]

getApplicableCodes(country, codes) ==
    IF ~CountryDataFound(country) THEN << >>
    ELSE LET found == SelectSeq(codes, LAMBDA codeKey : CodeFound(country, codeKey))
         IN  [i \in 1..Len(found) |-> CodeData(country, found[i])]

\* feet to inches
PathWidthInches(path) == path.width * 12

\* mutant: the width in feet is compared with the minimum in inches
CorridorTooNarrow_NoConversion(path, minimum) == path.width < minimum

\* mutant: a path exactly at the minimum is too narrow as well
CorridorTooNarrow_AtMinimum(path, minimum) == PathWidthInches(path) <= minimum

CorridorTooNarrow(path, minimum) == PathWidthInches(path) < minimum

RECURSIVE CorridorWidthChecks(_, _, _, _, _)
\* circulation.forEach of "Check corridor widths", from element `index` on
CorridorWidthChecks(circulation, rules, codeKey, res, index) ==
    IF index > Len(circulation) THEN res
    ELSE LET path == circulation[index]
             counted == [res EXCEPT !.summary.totalChecks = @ + 1]
             next ==
                IF CorridorTooNarrow(path, rules.corridorWidth.minimum)
                THEN [counted EXCEPT
                        !.issues = Append(@, Issue("corridor_width", codeKey, "CORRIDOR_WIDTH",
                                                   PathLocation("Path", index, path),
                                                   rules.corridorWidth.minimum,
                                                   PathWidthInches(path), "inches")),
                        !.summary.failed = @ + 1]
                ELSE [counted EXCEPT !.summary.passed = @ + 1]
         IN  CorridorWidthChecks(circulation, rules, codeKey, next, index + 1)

\* mutant: a room exactly at the minimum fails
RoomTooSmall_Inclusive(room, minimum) == room.area <= minimum

RoomTooSmall(room, minimum) == room.area < minimum

RECURSIVE RoomAreaChecks(_, _, _, _, _)
\* rooms.forEach of "Check room areas", from element `index` on
RoomAreaChecks(rooms, rules, codeKey, res, index) ==
    IF index > Len(rooms) THEN res
    ELSE LET room == rooms[index]
             roomType == inferRoomType(room.name)
             next ==
                IF Has(rules.roomArea, roomType)
                THEN LET areaRequirement == rules.roomArea[roomType]
                         counted == [res EXCEPT !.summary.totalChecks = @ + 1]
                     IN  IF RoomTooSmall(room, areaRequirement.minimum)
                         THEN [counted EXCEPT
                                 !.issues = Append(@, Issue("room_area", codeKey, "ROOM_AREA",
                                                            RoomLocation(room),
                                                            areaRequirement.minimum,
                                                            room.area, "sq ft")),
                                 !.summary.failed = @ + 1]
                         ELSE [counted EXCEPT !.summary.passed = @ + 1]
                ELSE res
         IN  RoomAreaChecks(rooms, rules, codeKey, next, index + 1)

RECURSIVE AccessibleRouteChecks(_, _, _, _, _)
\* circulation.forEach of "Check accessible routes", from element `index` on
AccessibleRouteChecks(circulation, accessibilityRules, codeKey, res, index) ==
    IF index > Len(circulation) THEN res
    ELSE LET path == circulation[index]
             counted == [res EXCEPT !.summary.totalChecks = @ + 1]
             next ==
                IF PathWidthInches(path) < accessibilityRules.corridorWidth
                THEN [counted EXCEPT
                        !.issues = Append(@, Issue("accessibility_route", codeKey,
                                                   "ACCESSIBLE_ROUTE",
                                                   PathLocation("Path", index, path),
                                                   accessibilityRules.corridorWidth,
                                                   PathWidthInches(path), "inches")),
                        !.summary.failed = @ + 1]
                ELSE [counted EXCEPT !.summary.passed = @ + 1]
         IN  AccessibleRouteChecks(circulation, accessibilityRules, codeKey, next, index + 1)

\* mutant: a room exactly at the turning area is below it
BelowTurningArea_Inclusive(room, turningSpace) ==
    room.area * 144 <= turningSpace * turningSpace

\* room.area < Math.pow(turningSpace / 12, 2), both sides multiplied by 12 * 12
BelowTurningArea(room, turningSpace) == room.area * 144 < turningSpace * turningSpace

RECURSIVE TurningSpaceChecks(_, _, _, _, _)
\* rooms.forEach of "Check turning spaces", from element `index` on
TurningSpaceChecks(rooms, accessibilityRules, codeKey, res, index) ==
    IF index > Len(rooms) THEN res
    ELSE LET room == rooms[index]
             counted == [res EXCEPT !.summary.totalChecks = @ + 1]
             next ==
                IF BelowTurningArea(room, accessibilityRules.turningSpace)
                   /\ requiresTurningSpace(room.name)
                THEN [counted EXCEPT
                        !.warnings = Append(@, Warning(codeKey, room,
                                                       accessibilityRules.turningSpace)),
                        !.summary.warnings = @ + 1]
                ELSE [counted EXCEPT !.summary.passed = @ + 1]
         IN  TurningSpaceChecks(rooms, accessibilityRules, codeKey, next, index + 1)

\* called only with layoutData.rooms defined
checkAccessibilityCompliance(layout, accessibilityRules, codeKey, res) ==
    LET routes ==
            IF Has(accessibilityRules, "corridorWidth") /\ IsDefined(layout.circulation)
            THEN AccessibleRouteChecks(Val(layout.circulation), accessibilityRules,
                                       codeKey, res, 1)
            ELSE res
    IN  IF Has(accessibilityRules, "turningSpace") /\ IsDefined(layout.rooms)
        THEN TurningSpaceChecks(Val(layout.rooms), accessibilityRules, codeKey, routes, 1)
        ELSE routes

\* mutant: the door is as wide as the path
DoorWidthInches_Uncapped(path) == PathWidthInches(path)

\* Math.min(path.width * 12, 36)
DoorWidthInches(path) == Min(PathWidthInches(path), 36)

\* mutant: the table is not consulted at all
RequiredDoorWidth_AlwaysDefault(rules) == 32

\* mutant: rules.exitWidth is not consulted
RequiredDoorWidth_IgnoresExitWidth(rules) ==
    IF Has(rules, "doorWidth") /\ rules.doorWidth.minimum /= 0 THEN rules.doorWidth.minimum
    ELSE 32

\* rules.doorWidth?.minimum || rules.exitWidth?.minimum || 32
RequiredDoorWidth(rules) ==
    IF Has(rules, "doorWidth") /\ rules.doorWidth.minimum /= 0 THEN rules.doorWidth.minimum
    ELSE IF Has(rules, "exitWidth") /\ rules.exitWidth.minimum /= 0
         THEN rules.exitWidth.minimum
         ELSE 32

RECURSIVE DoorWidthChecks(_, _, _, _, _)
\* circulation.forEach of checkDoorWidths, from element `index` on
DoorWidthChecks(circulation, rules, codeKey, res, index) ==
    IF index > Len(circulation) THEN res
    ELSE LET path == circulation[index]
             counted == [res EXCEPT !.summary.totalChecks = @ + 1]
             doorWidthInches == DoorWidthInches(path)
             requiredWidth == RequiredDoorWidth(rules)
             next ==
                IF doorWidthInches < requiredWidth
                THEN [counted EXCEPT
                        !.issues = Append(@, Issue("door_width", codeKey, "DOOR_WIDTH",
                                                   PathLocation("Door", index, path),
                                                   requiredWidth, doorWidthInches,
                                                   "inches")),
                        !.summary.failed = @ + 1]
                ELSE [counted EXCEPT !.summary.passed = @ + 1]
         IN  DoorWidthChecks(circulation, rules, codeKey, next, index + 1)

\* A call that may throw returns [threw, results]; `results` is the object as
\* the call left it.
Returned(res) == [threw |-> FALSE, results |-> res]
Threw(res) == [threw |-> TRUE, results |-> res]

\* circulation.forEach throws a TypeError when circulation is undefined
checkDoorWidths(layout, rules, codeKey, res) ==
    IF ~IsDefined(layout.circulation) THEN Threw(res)
    ELSE Returned(DoorWidthChecks(Val(layout.circulation), rules, codeKey, res, 1))

\* `rules.corridorWidth` throws a TypeError when codeData has no rules
runCodeChecks(layout, codeData, res) ==
    IF ~IsDefined(codeData.rules) THEN Threw(res)
    ELSE
    LET codeKey == codeData.key
        rules == Val(codeData.rules)
        afterCorridors ==
            IF Has(rules, "corridorWidth") /\ IsDefined(layout.circulation)
            THEN CorridorWidthChecks(Val(layout.circulation), rules, codeKey, res, 1)
            ELSE res
        afterRooms ==
            IF Has(rules, "roomArea") /\ IsDefined(layout.rooms)
            THEN RoomAreaChecks(Val(layout.rooms), rules, codeKey, afterCorridors, 1)
            ELSE afterCorridors
        afterAccessibility ==
            IF Has(rules, "accessibility") /\ IsDefined(layout.rooms)
            THEN checkAccessibilityCompliance(layout, rules.accessibility, codeKey, afterRooms)
            ELSE afterRooms
    IN  IF Has(rules, "doorWidth") \/ Has(rules, "exitWidth")
        THEN checkDoorWidths(layout, rules, codeKey, afterAccessibility)
        ELSE Returned(afterAccessibility)

HasCritical(issues) == \E i \in 1..Len(issues) : issues[i].severity = "critical"

\* mutant: the filter tests a severity no check produces
OverallStatus_WrongSeverity(res) ==
    IF Len(res.issues) > 0
    THEN (IF \E i \in 1..Len(res.issues) : res.issues[i].severity = "error"
          THEN "non-compliant" ELSE "warning")
    ELSE res.status

\* "Determine overall status"
OverallStatus(res) ==
    IF Len(res.issues) > 0
    THEN (IF HasCritical(res.issues) THEN "non-compliant" ELSE "warning")
    ELSE res.status

\* mutant: the summary leaves the warnings out of the total
Finish_WithoutWarnings(res) ==
    [res EXCEPT !.status = OverallStatus(res),
                !.summary.totalChecks = res.summary.passed + res.summary.failed]

\* "Determine overall status" and "Update summary"
Finish(res) ==
    [res EXCEPT !.status = OverallStatus(res),
                !.summary.totalChecks =
                    res.summary.passed + res.summary.failed + res.summary.warnings]

\* the configuration-error return of checkCompliance
ConfigErrorResults ==
    [NewResults EXCEPT !.issues = <<ConfigIssue>>, !.status = "error"]

RECURSIVE RunAllCodeChecks(_, _, _, _)
\* the for-of loop of checkCompliance from table `index` on
RunAllCodeChecks(layout, codes, res, index) ==
    IF index > Len(codes) THEN Returned(res)
    ELSE LET r == runCodeChecks(layout, codes[index], res)
         IN  IF r.threw THEN r ELSE RunAllCodeChecks(layout, codes, r.results, index + 1)

\* checkCompliance as a function of its arguments: [threw, results], threw
\* meaning the promise is rejected
checkCompliance(layout, settings) ==
    LET codes == getApplicableCodes(settings.country, settings.codes)
    IN  IF Len(codes) = 0 THEN Returned(ConfigErrorResults)
        ELSE LET r == RunAllCodeChecks(layout, codes, NewResults, 1)
             IN  IF r.threw THEN r ELSE Returned(Finish(r.results))

(***************************************************************************)
(* Inputs.  Room ids are unique within a layout: the room at position i    *)
(* has id RoomIds[i].  "r9" is the id of no room, and so is RoomIds[i] in  *)
(* a layout of fewer than i rooms: a path naming them is dangling.         *)
(***************************************************************************)
RoomIds == <<"r1", "r2", "r3", "r4">>

Room(id, name, area, x, y, width, height) ==
    [id |-> id, name |-> name, area |-> area, x |-> x, y |-> y,
     width |-> width, height |-> height]

Path(from, to, width) == [from |-> from, to |-> to, width |-> width]

\* path widths in feet: 2 ft is below every threshold, 3 ft is 36 in, 4 ft is 48 in
PathWidths == {2, 3, 4}

\* paths from the first room to the second
CorridorPaths == {Path("r1", "r2", w) : w \in PathWidths}

\* the same, and paths to a room that never exists
Paths == {Path("r1", to, w) : to \in {"r2", "r9"}, w \in PathWidths}

\* the circulation field: undefined, or a sequence of at most MaxPaths paths of P
CirculationsOf(P) == {Undefined} \cup {Some(c) : c \in SeqsUpTo(P, MaxPaths)}

\* <<name, area>> of the rooms of the compliance inputs: areas on both sides of
\* the IBC minima (80, 120, 30 sq ft) and of the turning area (25 sq ft)
RoomKinds ==
    {<<"Office", 20>>, <<"Office", 25>>, <<"Office", 50>>, <<"Office", 80>>,
     <<"Conference Room", 100>>, <<"Kitchen", 20>>, <<"Office Kitchenette", 50>>}

\* rooms in a row, each 3 wide and 4 high
RowRoom(i, kind) == Room(RoomIds[i], kind[1], kind[2], 3 * (i - 1), 0, 3, 4)

ComplianceRooms ==
    {Undefined} \cup
    {Some([i \in 1..Len(kinds) |-> RowRoom(i, kinds[i])]) :
        kinds \in SeqsUpTo(RoomKinds, MaxRooms)}

ComplianceLayouts ==
    {[rooms |-> r, circulation |-> c] :
        r \in ComplianceRooms, c \in CirculationsOf(CorridorPaths)}

Countries == {"US", "CA", "ZZ"}
\* values of codeSettings.codes: none, each table alone, the default list and its
\* reverse, a table with a table of the other country, and "constructor", a name
\* of no table that every object inherits
CodeLists ==
    {<< >>, <<"IBC">>, <<"ADA">>, <<"IRC">>, <<"NBC">>, <<"constructor">>,
     <<"IBC", "ADA">>, <<"ADA", "IBC">>, <<"NBC", "IBC">>, <<"ADA", "constructor">>}

CodeSettings ==
    {[country |-> country, codes |-> codes] :
        country \in Countries, codes \in CodeLists}

\* values of the variables a specification does not use
IdleCompliance ==
    /\ codeSettings = [country |-> "US", codes |-> << >>]
    /\ applicableCodes = << >>
    /\ codeIndex = 0
    /\ results = NewResults

NoMetrics ==
    [circulationEfficiency |-> Undefined, daylightHours |-> Undefined,
     energyEfficiency |-> Undefined, spaceUtilization |-> Undefined,
     accessibilityScore |-> Undefined]

IdleMetrics ==
    /\ stack = << >>
    /\ metrics = NoMetrics

IdleExport ==
    /\ projectInfo = Undefined
    /\ formats = << >>
    /\ formatIndex = 0
    /\ exportResults = << >>

IdleObjects ==
    /\ heap = << >>
    /\ parameters = Undefined
    /\ optimized = Undefined
    /\ lastCall = Undefined

IdleConcurrent == calls = << >>

IdleGeneration ==
    /\ scheduleData = Undefined
    /\ response = Undefined
    /\ generated = Undefined

IdleAdjacency == adjacency = Undefined

IdleReport ==
    /\ report = Undefined
    /\ phase = "corridors"
    /\ item = 1

\* the store as useStore creates it, of which the model keeps the fields that
\* identify a record: two projects and their three layouts
InitialStore ==
    [projects |->
        <<[id |-> <<"project-", 1>>, name |-> "Modern Office Complex"],
          [id |-> <<"project-", 2>>, name |-> "Residential Apartment"]>>,
     layouts |->
        <<[id |-> <<"layout-", 1>>, projectId |-> <<"project-", 1>>,
           name |-> "Option A - Open Plan", version |-> 1],
          [id |-> <<"layout-", 2>>, projectId |-> <<"project-", 1>>,
           name |-> "Option B - Zoned Plan", version |-> 1],
          [id |-> <<"layout-", 3>>, projectId |-> <<"project-", 2>>,
           name |-> "Compact Layout", version |-> 1]>>]

IdleStore ==
    /\ clock = 0
    /\ store = InitialStore
    /\ projectId = Undefined
    /\ data = Undefined

IdleDownload == download = Undefined

IdleOthers == IdleAdjacency /\ IdleReport /\ IdleStore /\ IdleDownload

(***************************************************************************)
(* Spec: one call of checkCompliance(layoutData, codeSettings).  The call  *)
(* yields at the await of every iteration of its for-of loop.              *)
(*   pc = "start"     called, nothing run                                  *)
(*   pc = "loop"      in the for-of loop, before table codeIndex           *)
(*   pc = "done"      the promise is resolved with `results`               *)
(*   pc = "rejected"  the promise is rejected (a TypeError was thrown)     *)
(***************************************************************************)
Init ==
    /\ layoutData \in ComplianceLayouts
    /\ codeSettings \in CodeSettings
    /\ pc = "start"
    /\ applicableCodes = << >>
    /\ codeIndex = 0
    /\ results = NewResults
    /\ IdleMetrics
    /\ IdleExport
    /\ IdleObjects
    /\ IdleConcurrent
    /\ IdleGeneration
    /\ IdleOthers

\* lines 100-126: create results, resolve the tables, return the configuration error
CheckComplianceStart ==
    /\ pc = "start"
    /\ LET codes == getApplicableCodes(codeSettings.country, codeSettings.codes)
       IN  /\ applicableCodes' = codes
           /\ IF Len(codes) = 0
              THEN /\ results' = ConfigErrorResults
                   /\ codeIndex' = 0
                   /\ pc' = "done"
              ELSE /\ results' = NewResults
                   /\ codeIndex' = 1
                   /\ pc' = "loop"
    /\ UNCHANGED <<layoutData, codeSettings, metricsVars, exportVars,
                   objectVars, calls,
                   generationVars, otherVars>>

\* lines 129-131: one iteration, await this.runCodeChecks(layoutData, codeData, results)
RunCodeChecksStep ==
    /\ pc = "loop"
    /\ codeIndex <= Len(applicableCodes)
    /\ LET r == runCodeChecks(layoutData, applicableCodes[codeIndex], results)
       IN  /\ results' = r.results
           /\ IF r.threw
              THEN pc' = "rejected" /\ codeIndex' = codeIndex
              ELSE pc' = "loop" /\ codeIndex' = codeIndex + 1
    /\ UNCHANGED <<layoutData, codeSettings, applicableCodes, metricsVars, exportVars,
                   objectVars, calls,
                   generationVars, otherVars>>

\* lines 133-142: status, summary, return
CheckComplianceReturn ==
    /\ pc = "loop"
    /\ codeIndex > Len(applicableCodes)
    /\ results' = Finish(results)
    /\ pc' = "done"
    /\ UNCHANGED <<layoutData, codeSettings, applicableCodes, codeIndex,
                   metricsVars, exportVars,
                   objectVars, calls,
                   generationVars, otherVars>>

Next ==
    \/ CheckComplianceStart
    \/ RunCodeChecksStep
    \/ CheckComplianceReturn

Spec == Init /\ [][Next]_vars

(***************************************************************************)
(* Properties of checkCompliance (specification Spec)                      *)
(***************************************************************************)
Resolved == pc = "done"
Rejected == pc = "rejected"

IsSettings(country, codes) ==
    codeSettings.country = country /\ codeSettings.codes = codes

SeqToSet(seq) == {seq[i] : i \in 1..Len(seq)}

CirculationPaths ==
    IF IsDefined(layoutData.circulation) THEN Val(layoutData.circulation) ELSE << >>

LayoutRooms == IF IsDefined(layoutData.rooms) THEN Val(layoutData.rooms) ELSE << >>

\* some Issue of `res` is critical and has a code ending in one of `suffixes`
HasCriticalIssue(res, suffixes) ==
    \E i \in 1..Len(res.issues) :
        /\ res.issues[i].severity = "critical"
        /\ res.issues[i].code[Len(res.issues[i].code)] \in suffixes

\* C1 as stated: under {country: "US", codes: ["ADA"]} a layout with a circulation
\* path of width 3 ft gets a critical Issue whose code ends in _ACCESSIBLE_ROUTE or
\* _CORRIDOR_WIDTH, and status "non-compliant".
C1_ThreeFootPathFails ==
    (/\ Resolved
     /\ IsSettings("US", <<"ADA">>)
     /\ \E i \in 1..Len(CirculationPaths) : CirculationPaths[i].width = 3)
    => /\ HasCriticalIssue(results, {"ACCESSIBLE_ROUTE", "CORRIDOR_WIDTH"})
       /\ results.status = "non-compliant"

\* C1 amended: under {country: "US", codes: ["ADA"]} a layout with a circulation
\* path narrower than 3 ft (less than 36 in) gets a critical Issue whose code ends
\* in _CORRIDOR_WIDTH, and status "non-compliant"; a layout whose paths are all
\* 3 ft or wider gets no Issue and status "compliant".
C1_NarrowPathFails ==
    (Resolved /\ IsSettings("US", <<"ADA">>))
    => IF \E i \in 1..Len(CirculationPaths) : CirculationPaths[i].width < 3
       THEN /\ HasCriticalIssue(results, {"CORRIDOR_WIDTH"})
            /\ results.status = "non-compliant"
       ELSE /\ results.issues = << >>
            /\ results.status = "compliant"

C1_Witness ==
    /\ Resolved
    /\ IsSettings("US", <<"ADA">>)
    /\ \E i \in 1..Len(CirculationPaths) : CirculationPaths[i].width = 2
    /\ HasCriticalIssue(results, {"CORRIDOR_WIDTH"})
    /\ results.status = "non-compliant"

\* C3: every result other than the configuration error has status "non-compliant"
\* if some Issue is critical, else "warning" if there is any Issue or Warning, else
\* "compliant".
C3_StatusRule ==
    (Resolved /\ results.status /= "error")
    => results.status =
          (IF \E i \in 1..Len(results.issues) : results.issues[i].severity = "critical"
           THEN "non-compliant"
           ELSE IF Len(results.issues) > 0 \/ Len(results.warnings) > 0
                THEN "warning"
                ELSE "compliant")

C3_Witness ==
    /\ Resolved
    /\ Len(results.warnings) > 0
    /\ results.status = "non-compliant"

RegistryHasCountry == codeSettings.country \in DOMAIN BUILDING_CODES

RegistryHasSomeCode ==
    /\ RegistryHasCountry
    /\ \E i \in 1..Len(codeSettings.codes) :
          codeSettings.codes[i] \in DOMAIN BUILDING_CODES[codeSettings.country]

\* C4: when the country is not in the registry, or none of the requested codes
\* exists for it, the call resolves (it does not reject) with status "error", the
\* single Issue CONFIG_ERROR, no Warning and all summary counters 0.
C4_ConfigErrorNeverThrown ==
    ((Resolved \/ Rejected) /\ ~RegistryHasSomeCode)
    => /\ Resolved
       /\ results.status = "error"
       /\ Len(results.issues) = 1
       /\ results.issues[1].code = <<"CONFIG_ERROR">>
       /\ results.warnings = << >>
       /\ results.summary = [totalChecks |-> 0, passed |-> 0, failed |-> 0, warnings |-> 0]

\* the rooms with an entry in the table's roomArea block, in order
RoomsWithRequirement(rooms, rules) ==
    SelectSeq(rooms, LAMBDA room : inferRoomType(room.name) \in DOMAIN rules.roomArea)

\* the room-area Issues C7 expects of one table
ExpectedRoomAreaIssues(rooms, codeData) ==
    LET rules == Val(codeData.rules)
        small ==
            SelectSeq(RoomsWithRequirement(rooms, rules),
                      LAMBDA room :
                          room.area < rules.roomArea[inferRoomType(room.name)].minimum)
    IN  [i \in 1..Len(small) |->
            [type |-> "room_area", severity |-> "critical",
             code |-> <<codeData.key, "ROOM_AREA">>,
             location |-> RoomLocation(small[i]),
             required |-> rules.roomArea[inferRoomType(small[i].name)].minimum,
             actual |-> small[i].area, unit |-> "sq ft"]]

HasRoomArea(codeData) ==
    IsDefined(codeData.rules) /\ Has(Val(codeData.rules), "roomArea")

RECURSIVE ExpectedRoomAreaIssuesOfAll(_, _, _)
ExpectedRoomAreaIssuesOfAll(rooms, codes, index) ==
    IF index > Len(codes) THEN << >>
    ELSE (IF HasRoomArea(codes[index])
          THEN ExpectedRoomAreaIssues(rooms, codes[index])
          ELSE << >>)
         \o ExpectedRoomAreaIssuesOfAll(rooms, codes, index + 1)

\* C7: for each resolved table with a roomArea block the room-area pass counts one
\* check per room whose inferred type has an entry (and none for other rooms) and
\* adds a critical room_area Issue (required = the minimum, actual = room.area)
\* exactly for those below the minimum; the result holds these Issues, in table and
\* room order, and is "non-compliant" when there is one.  An "Office" of 50 sq ft
\* under US/IBC gets the Issue.
C7_RoomAreaChecks ==
    /\ \A t \in 1..Len(applicableCodes) :
          (HasRoomArea(applicableCodes[t]) /\ IsDefined(layoutData.rooms))
          => LET rules == Val(applicableCodes[t].rules)
                 expected == ExpectedRoomAreaIssues(LayoutRooms, applicableCodes[t])
                 checked == Len(RoomsWithRequirement(LayoutRooms, rules))
                 pass == RoomAreaChecks(LayoutRooms, rules, applicableCodes[t].key,
                                        NewResults, 1)
             IN  /\ pass.issues = expected
                 /\ pass.warnings = << >>
                 /\ pass.summary = [totalChecks |-> checked,
                                    passed |-> checked - Len(expected),
                                    failed |-> Len(expected), warnings |-> 0]
    /\ (Resolved /\ results.status /= "error")
       => LET expected == ExpectedRoomAreaIssuesOfAll(LayoutRooms, applicableCodes, 1)
          IN  /\ SelectSeq(results.issues, LAMBDA issue : issue.type = "room_area")
                    = expected
              /\ (expected /= << >> => results.status = "non-compliant")
    /\ (/\ Resolved
        /\ IsSettings("US", <<"IBC">>)
        /\ \E i \in 1..Len(LayoutRooms) :
              LayoutRooms[i].name = "Office" /\ LayoutRooms[i].area = 50)
       => /\ \E i \in 1..Len(results.issues) :
                /\ results.issues[i].code = <<"IBC", "ROOM_AREA">>
                /\ results.issues[i].required = 80
                /\ results.issues[i].actual = 50
          /\ results.status = "non-compliant"

C7_Witness ==
    /\ Resolved
    /\ IsSettings("US", <<"IBC">>)
    /\ Len(LayoutRooms) = 2
    /\ LayoutRooms[1].name = "Office" /\ LayoutRooms[1].area = 50
    /\ LayoutRooms[2].name = "Kitchen"
    /\ Len(SelectSeq(results.issues, LAMBDA issue : issue.type = "room_area")) = 1

\* the path names a room the layout does not hold
IsDangling(path) ==
    \/ \A r \in 1..Len(LayoutRooms) : LayoutRooms[r].id /= path.from
    \/ \A r \in 1..Len(LayoutRooms) : LayoutRooms[r].id /= path.to

RemoveAt(seq, i) == SubSeq(seq, 1, i - 1) \o SubSeq(seq, i + 1, Len(seq))

WithoutPath(layout, i) ==
    [layout EXCEPT !.circulation = Some(RemoveAt(Val(layout.circulation), i))]

HasPathIssue(res, code, i) ==
    \E k \in 1..Len(res.issues) :
        res.issues[k].code = code /\ res.issues[k].location.index = i

RoundDiv(p, q) == (2 * p + q) \div (2 * q)

\* Math.sqrt(n), n a perfect square
Sqrt(n) == CHOOSE r \in 0..n : r * r = n

RECURSIVE ISqrtBetween(_, _, _)
\* the r with lo <= r < hi and r * r <= n < (r + 1) * (r + 1), by bisection
ISqrtBetween(n, lo, hi) ==
    IF hi - lo <= 1 THEN lo
    ELSE LET mid == (lo + hi) \div 2
         IN  IF mid * mid <= n THEN ISqrtBetween(n, mid, hi) ELSE ISqrtBetween(n, lo, mid)

\* the integer part of Math.sqrt(n), 0 <= n < 2^30
ISqrt(n) == ISqrtBetween(n, 0, 32768)

\* rooms.find(r => r.id === id): the first room with the id, or undefined
Find(rooms, id) ==
    LET hits == SelectSeq(rooms, LAMBDA r : r.id = id)
    IN  IF Len(hits) = 0 THEN Undefined ELSE Some(hits[1])

RECURSIVE TotalArea(_, _)
\* rooms.reduce((total, room) => total + room.area, 0), from element `index` on
TotalArea(rooms, index) ==
    IF index > Len(rooms) THEN 0 ELSE rooms[index].area + TotalArea(rooms, index + 1)

\* the callback of the circulation reduce: the area one path adds
PathArea(rooms, path) ==
    LET fromRoom == Find(rooms, path.from)
        toRoom == Find(rooms, path.to)
    IN  IF ~IsDefined(fromRoom) \/ ~IsDefined(toRoom) THEN 0
        ELSE LET dx == Val(toRoom).x - Val(fromRoom).x
                 dy == Val(toRoom).y - Val(fromRoom).y
             IN  Sqrt(dx * dx + dy * dy) * path.width

RECURSIVE TotalCirculationArea(_, _, _)
TotalCirculationArea(rooms, circulation, index) ==
    IF index > Len(circulation) THEN 0
    ELSE PathArea(rooms, circulation[index])
         + TotalCirculationArea(rooms, circulation, index + 1)

\* mutant: the score is not clamped
Clamp_None(lo, x, hi) == x

\* Math.max(lo, Math.min(hi, x))
Clamp(lo, x, hi) == Max(lo, Min(hi, x))

calculateCirculationEfficiency(layout) ==
    IF ~IsDefined(layout.rooms) \/ ~IsDefined(layout.circulation)
       \/ Len(Val(layout.rooms)) = 0
    THEN 0
    ELSE LET rooms == Val(layout.rooms)
             totalCirculationArea == TotalCirculationArea(rooms, Val(layout.circulation), 1)
             totalUsableArea == TotalArea(rooms, 1)
             \* efficiency * totalUsableArea
             efficiency == Clamp(0, 100 * totalUsableArea - 50 * totalCirculationArea,
                                 100 * totalUsableArea)
         IN  RoundDiv(efficiency, totalUsableArea)

RECURSIVE BoundsFrom(_, _, _)
BoundsFrom(rooms, bounds, index) ==
    IF index > Len(rooms) THEN bounds
    ELSE LET room == rooms[index]
         IN  BoundsFrom(rooms,
                        [minX |-> Min(bounds.minX, room.x),
                         maxX |-> Max(bounds.maxX, room.x + room.width),
                         minY |-> Min(bounds.minY, room.y),
                         maxY |-> Max(bounds.maxY, room.y + room.height)],
                        index + 1)

\* PerformanceMetricsCalculator.calculateBuildingBounds, rooms defined
calculateBuildingBounds(rooms) ==
    IF Len(rooms) = 0 THEN [minX |-> 0, maxX |-> 0, minY |-> 0, maxY |-> 0]
    ELSE BoundsFrom(rooms,
                    [minX |-> rooms[1].x, maxX |-> rooms[1].x + rooms[1].width,
                     minY |-> rooms[1].y, maxY |-> rooms[1].y + rooms[1].height],
                    1)

\* roomDaylightScore * 10 * buildingWidth * buildingHeight: the proximity scores
\* max(0, 1 - distance / dimension) weighted by 0.3, 1.0, 0.7, 0.7
RoomDaylightScore(room, bounds) ==
    LET buildingWidth == bounds.maxX - bounds.minX
        buildingHeight == bounds.maxY - bounds.minY
        distanceFromNorth == room.y - bounds.minY
        distanceFromSouth == bounds.maxY - (room.y + room.height)
        distanceFromEast == bounds.maxX - (room.x + room.width)
        distanceFromWest == room.x - bounds.minX
        north == Max(0, buildingHeight - distanceFromNorth)
        south == Max(0, buildingHeight - distanceFromSouth)
        east == Max(0, buildingWidth - distanceFromEast)
        west == Max(0, buildingWidth - distanceFromWest)
    IN  (3 * north + 10 * south) * buildingWidth + (7 * east + 7 * west) * buildingHeight

RECURSIVE TotalDaylightScore(_, _, _)
\* totalDaylightScore * 10000 * buildingWidth * buildingHeight
TotalDaylightScore(rooms, bounds, index) ==
    IF index > Len(rooms) THEN 0
    ELSE RoomDaylightScore(rooms[index], bounds) * rooms[index].area
         + TotalDaylightScore(rooms, bounds, index + 1)

\* in tenths of an hour
calculateDaylightHours(layout) ==
    IF ~IsDefined(layout.rooms) \/ Len(Val(layout.rooms)) = 0 THEN 0
    ELSE LET rooms == Val(layout.rooms)
             bounds == calculateBuildingBounds(rooms)
             buildingWidth == bounds.maxX - bounds.minX
             buildingHeight == bounds.maxY - bounds.minY
             total == TotalDaylightScore(rooms, bounds, 1)
             \* averageScore = total / denominator
             denominator == 10000 * buildingWidth * buildingHeight * Len(rooms)
             \* daylightHours * denominator
             daylightHours == Clamp(3 * denominator, 8 * total + 4 * denominator,
                                    12 * denominator)
         IN  RoundDiv(10 * daylightHours, denominator)

\* mutant: rooms that touch at a corner count as sharing a wall
Adjacent_TouchingCorners(room1, room2) ==
    LET horizontallyAdjacent ==
            /\ (room1.x + room1.width = room2.x \/ room2.x + room2.width = room1.x)
            /\ ~(room1.y + room1.height < room2.y \/ room2.y + room2.height < room1.y)
        verticallyAdjacent ==
            /\ (room1.y + room1.height = room2.y \/ room2.y + room2.height = room1.y)
            /\ ~(room1.x + room1.width < room2.x \/ room2.x + room2.width < room1.x)
    IN  horizontallyAdjacent \/ verticallyAdjacent

\* room1 and room2 share a wall
Adjacent(room1, room2) ==
    LET horizontallyAdjacent ==
            /\ (room1.x + room1.width = room2.x \/ room2.x + room2.width = room1.x)
            /\ ~(room1.y + room1.height <= room2.y \/ room2.y + room2.height <= room1.y)
        verticallyAdjacent ==
            /\ (room1.y + room1.height = room2.y \/ room2.y + room2.height = room1.y)
            /\ ~(room1.x + room1.width <= room2.x \/ room2.x + room2.width <= room1.x)
    IN  horizontallyAdjacent \/ verticallyAdjacent

\* the pairs i < j of the nested loops
RoomPairs(rooms) == {p \in (1..Len(rooms)) \X (1..Len(rooms)) : p[1] < p[2]}

adjacentPairs(rooms) ==
    Cardinality({p \in RoomPairs(rooms) : Adjacent(rooms[p[1]], rooms[p[2]])})

totalPossiblePairs(rooms) == Cardinality(RoomPairs(rooms))

\* a quotient of integers, as <<numerator, denominator>>
Fraction(numerator, denominator) == <<numerator, denominator>>

\* line 327: adjacentPairs / totalPossiblePairs, or 0
calculateAdjacencyScore(rooms) ==
    IF totalPossiblePairs(rooms) > 0
    THEN Fraction(adjacentPairs(rooms), totalPossiblePairs(rooms))
    ELSE Fraction(0, 1)

calculateEnergyEfficiency(layout) ==
    IF ~IsDefined(layout.rooms) \/ Len(Val(layout.rooms)) = 0 THEN 0
    ELSE LET rooms == Val(layout.rooms)
             bounds == calculateBuildingBounds(rooms)
             buildingArea == (bounds.maxX - bounds.minX) * (bounds.maxY - bounds.minY)
             totalRoomArea == TotalArea(rooms, 1)
             perimeter == 2 * ((bounds.maxX - bounds.minX) + (bounds.maxY - bounds.minY))
             \* Math.sqrt(buildingArea) * SqrtScale
             root == ISqrt(buildingArea * SqrtScale * SqrtScale)
             pairs == Max(1, totalPossiblePairs(rooms))
             \* compactnessScore * buildingArea
             compactnessScore == Min(100 * buildingArea, 100 * totalRoomArea)
             \* perimeterScore * root
             perimeterScore == Max(0, 100 * root - 10 * perimeter * SqrtScale)
             \* adjacencyEfficiency * pairs
             adjacencyEfficiency == 20 * adjacentPairs(rooms)
             \* totalEfficiency * 10 * buildingArea * root * pairs
             totalEfficiency == 4 * compactnessScore * root * pairs
                                + 3 * perimeterScore * buildingArea * pairs
                                + 3 * adjacencyEfficiency * buildingArea * root
         IN  RoundDiv(totalEfficiency, 10 * buildingArea * root * pairs)

calculateSpaceUtilization(layout) ==
    IF ~IsDefined(layout.rooms) \/ Len(Val(layout.rooms)) = 0 THEN 0
    ELSE LET rooms == Val(layout.rooms)
             bounds == calculateBuildingBounds(rooms)
             totalBuildingArea == (bounds.maxX - bounds.minX) * (bounds.maxY - bounds.minY)
             totalRoomArea == TotalArea(rooms, 1)
         IN  RoundDiv(Min(100 * totalBuildingArea, 100 * totalRoomArea), totalBuildingArea)

\* accessibilitySettings.minCorridorWidth || 4, in feet
MinCorridorWidth == 4

\* mutant: only the paths that start at the room count
hasAdequateAccess_FromOnly(room, circulation) ==
    \E i \in 1..Len(circulation) :
        /\ circulation[i].from = room.id
        /\ circulation[i].width >= MinCorridorWidth

hasAdequateAccess(room, circulation) ==
    \E i \in 1..Len(circulation) :
        /\ (circulation[i].from = room.id \/ circulation[i].to = room.id)
        /\ circulation[i].width >= MinCorridorWidth

\* mutant: a layout with nothing to check scores 0
AccessibilityScore_ZeroFloor(totalChecks, accessibilityIssues) ==
    IF totalChecks > 0
    THEN RoundDiv((totalChecks - accessibilityIssues) * 100, totalChecks)
    ELSE 0

\* "Calculate score", rounded
AccessibilityScore(totalChecks, accessibilityIssues) ==
    IF totalChecks > 0
    THEN RoundDiv((totalChecks - accessibilityIssues) * 100, totalChecks)
    ELSE 100

calculateAccessibilityScore(layout) ==
    IF ~IsDefined(layout.rooms) \/ ~IsDefined(layout.circulation) THEN 0
    ELSE LET rooms == Val(layout.rooms)
             circulation == Val(layout.circulation)
             narrow == Cardinality({i \in 1..Len(circulation) :
                                       circulation[i].width < MinCorridorWidth})
             cutOff == Cardinality({i \in 1..Len(rooms) :
                                       ~hasAdequateAccess(rooms[i], circulation)})
             accessibilityIssues == narrow + cutOff
             totalChecks == Len(circulation) + Len(rooms)
         IN  AccessibilityScore(totalChecks, accessibilityIssues)

(***************************************************************************)
(* Inputs of the metrics calculator and of the encoders: rooms of 3 by 4   *)
(* at the corners (0,0), (3,0) and (0,4), whose distances are 3, 4 and 5,  *)
(* with an area (advisory, not width * height) of 6 or 400 sq ft.          *)
(***************************************************************************)
GeometryKinds == {<<x, y, area>> : x \in {0, 3}, y \in {0, 4}, area \in {6, 400}}
                 \ {<<3, 4, area>> : area \in {6, 400}}

PlacedRoom(i, kind) == Room(RoomIds[i], "Office", kind[3], kind[1], kind[2], 3, 4)

GeometryRooms ==
    {Undefined} \cup
    {Some([i \in 1..Len(kinds) |-> PlacedRoom(i, kinds[i])]) :
        kinds \in SeqsUpTo(GeometryKinds, MaxRooms)}

\* paths between the first two rooms, and a path from what is no room
GeometryPaths == {Path("r1", "r2", 2), Path("r1", "r2", 4), Path("r9", "r2", 2)}

GeometryLayouts ==
    {[rooms |-> r, circulation |-> c] :
        r \in GeometryRooms, c \in CirculationsOf(GeometryPaths)}

(***************************************************************************)
(* SpecMetrics: one call of calculateAllMetrics(layoutData), or of         *)
(* generateRecommendations(layoutData).  `stack` is                        *)
(* the call stack, its last element the running function; `metrics` is    *)
(* the object literal the running calculateAllMetrics is evaluating, in    *)
(* property order.                                                         *)
(*   pc = "start"                   before the call                        *)
(*   pc = "circulationEfficiency", "daylightHours", "energyEfficiency",    *)
(*        "spaceUtilization", "accessibilityScore", "recommendations"      *)
(*                                  the property to evaluate next          *)
(*   pc = "generateRecommendations" in generateRecommendations, line 238   *)
(*   pc = "threw"                   the call ended with a RangeError       *)
(* generateRecommendations calls calculateAllMetrics before it does        *)
(* anything else, and calculateAllMetrics calls generateRecommendations    *)
(* for its last property: no frame of either ever returns.                 *)
(***************************************************************************)
InitMetrics ==
    /\ layoutData \in GeometryLayouts
    /\ pc = "start"
    /\ stack = << >>
    /\ metrics = NoMetrics
    /\ IdleCompliance
    /\ IdleExport
    /\ IdleObjects
    /\ IdleConcurrent
    /\ IdleGeneration
    /\ IdleOthers

\* a call of calculateAllMetrics: from outside, or line 238
EnterCalculateAllMetrics ==
    /\ stack' = Append(stack, "calculateAllMetrics")
    /\ metrics' = NoMetrics
    /\ pc' = "circulationEfficiency"
    /\ UNCHANGED <<layoutData, complianceVars, exportVars,
                   objectVars, calls,
                   generationVars, otherVars>>

CallCalculateAllMetrics ==
    /\ pc = "start"
    /\ EnterCalculateAllMetrics

\* a call of generateRecommendations(layoutData) from outside
CallGenerateRecommendationsDirectly ==
    /\ pc = "start"
    /\ stack' = <<"generateRecommendations">>
    /\ pc' = "generateRecommendations"
    /\ UNCHANGED <<layoutData, metrics, complianceVars, exportVars,
                   objectVars, calls,
                   generationVars, otherVars>>

\* line 219
EvalCirculationEfficiency ==
    /\ pc = "circulationEfficiency"
    /\ metrics' = [metrics EXCEPT !.circulationEfficiency =
                        Some(calculateCirculationEfficiency(layoutData))]
    /\ pc' = "daylightHours"
    /\ UNCHANGED <<layoutData, stack, complianceVars, exportVars,
                   objectVars, calls,
                   generationVars, otherVars>>

\* line 220
EvalDaylightHours ==
    /\ pc = "daylightHours"
    /\ metrics' = [metrics EXCEPT !.daylightHours = Some(calculateDaylightHours(layoutData))]
    /\ pc' = "energyEfficiency"
    /\ UNCHANGED <<layoutData, stack, complianceVars, exportVars,
                   objectVars, calls,
                   generationVars, otherVars>>

\* line 221
EvalEnergyEfficiency ==
    /\ pc = "energyEfficiency"
    /\ metrics' = [metrics EXCEPT !.energyEfficiency =
                        Some(calculateEnergyEfficiency(layoutData))]
    /\ pc' = "spaceUtilization"
    /\ UNCHANGED <<layoutData, stack, complianceVars, exportVars,
                   objectVars, calls,
                   generationVars, otherVars>>

\* line 222
EvalSpaceUtilization ==
    /\ pc = "spaceUtilization"
    /\ metrics' = [metrics EXCEPT !.spaceUtilization =
                        Some(calculateSpaceUtilization(layoutData))]
    /\ pc' = "accessibilityScore"
    /\ UNCHANGED <<layoutData, stack, complianceVars, exportVars,
                   objectVars, calls,
                   generationVars, otherVars>>

\* line 223
EvalAccessibilityScore ==
    /\ pc = "accessibilityScore"
    /\ metrics' = [metrics EXCEPT !.accessibilityScore =
                        Some(calculateAccessibilityScore(layoutData))]
    /\ pc' = "recommendations"
    /\ UNCHANGED <<layoutData, stack, complianceVars, exportVars,
                   objectVars, calls,
                   generationVars, otherVars>>

\* line 227: recommendations: this.generateRecommendations(layoutData)
CallGenerateRecommendations ==
    /\ pc = "recommendations"
    /\ Len(stack) < MaxStack
    /\ stack' = Append(stack, "generateRecommendations")
    /\ pc' = "generateRecommendations"
    /\ UNCHANGED <<layoutData, metrics, complianceVars, exportVars,
                   objectVars, calls,
                   generationVars, otherVars>>

\* line 238: const metrics = this.calculateAllMetrics(layoutData)
RecommendationsCallAllMetrics ==
    /\ pc = "generateRecommendations"
    /\ Len(stack) < MaxStack
    /\ EnterCalculateAllMetrics

\* a call with the stack full: RangeError (Maximum call stack size exceeded), which
\* no frame catches
StackOverflow ==
    /\ pc \in {"recommendations", "generateRecommendations"}
    /\ Len(stack) >= MaxStack
    /\ stack' = << >>
    /\ pc' = "threw"
    /\ UNCHANGED <<layoutData, metrics, complianceVars, exportVars,
                   objectVars, calls,
                   generationVars, otherVars>>

NextMetrics ==
    \/ CallCalculateAllMetrics
    \/ CallGenerateRecommendationsDirectly
    \/ EvalCirculationEfficiency
    \/ EvalDaylightHours
    \/ EvalEnergyEfficiency
    \/ EvalSpaceUtilization
    \/ EvalAccessibilityScore
    \/ CallGenerateRecommendations
    \/ RecommendationsCallAllMetrics
    \/ StackOverflow

SpecMetrics == InitMetrics /\ [][NextMetrics]_vars

(***************************************************************************)
(* Claims about the metrics calculator, under SpecMetrics.  A property of  *)
(* `metrics` holds the value the running calculateAllMetrics got from the  *)
(* score function of that name.                                            *)
(***************************************************************************)
\* rooms and circulation are arrays, as the data model has them
Conforming == IsDefined(layoutData.rooms) /\ IsDefined(layoutData.circulation)

InRange(value, lo, hi) == IsDefined(value) => (lo <= Val(value) /\ Val(value) <= hi)

\* C2 as stated: calculateAllMetrics never signals failure.  (It does not return
\* either: SpecMetrics has no state in which a frame of it has returned.)
C2_AllMetricsReturns == pc /= "threw"

\* C16 as stated: a call of generateRecommendations returns a list; it does not
\* end with an error.
C16_RecommendationsReturn ==
    [][(stack /= << >> /\ stack[1] = "generateRecommendations") => pc' /= "threw"]_vars

ScoresInRange ==
    /\ InRange(metrics.circulationEfficiency, 0, 100)
    /\ InRange(metrics.energyEfficiency, 0, 100)
    /\ InRange(metrics.spaceUtilization, 0, 100)
    /\ InRange(metrics.accessibilityScore, 0, 100)

\* C5 as stated: for every conforming layout the four scores are in 0..100 and
\* calculateDaylightHours is in 3..12 (30..120 tenths of an hour).
C5_AllInRange ==
    Conforming => (ScoresInRange /\ InRange(metrics.daylightHours, 30, 120))

\* C5, amended: for every conforming layout the four scores are in 0..100;
\* calculateDaylightHours is in 3..12 when the layout has a room and is 0 when
\* rooms is empty.
C5_InRangeWithRooms ==
    Conforming
    => /\ ScoresInRange
       /\ IF Len(LayoutRooms) = 0
          THEN IsDefined(metrics.daylightHours) => Val(metrics.daylightHours) = 0
          ELSE InRange(metrics.daylightHours, 30, 120)

\* a layout with rooms whose daylight hours are at the upper clamp, all five
\* score functions evaluated
C5_Witness ==
    /\ Conforming
    /\ Len(LayoutRooms) > 0
    /\ metrics.daylightHours = Some(120)
    /\ IsDefined(metrics.circulationEfficiency)
    /\ IsDefined(metrics.energyEfficiency)
    /\ IsDefined(metrics.spaceUtilization)
    /\ IsDefined(metrics.accessibilityScore)

\* C6: with rooms = [] calculateCirculationEfficiency, calculateEnergyEfficiency
\* and calculateSpaceUtilization return 0, and calculateAccessibilityScore returns
\* 100 when circulation is empty too.
C6_EmptyRoomsFloors ==
    layoutData.rooms = Some(<< >>)
    => /\ IsDefined(metrics.circulationEfficiency)
             => Val(metrics.circulationEfficiency) = 0
       /\ IsDefined(metrics.energyEfficiency) => Val(metrics.energyEfficiency) = 0
       /\ IsDefined(metrics.spaceUtilization) => Val(metrics.spaceUtilization) = 0
       /\ (layoutData.circulation = Some(<< >>) /\ IsDefined(metrics.accessibilityScore))
             => Val(metrics.accessibilityScore) = 100

C6_Witness ==
    /\ layoutData.rooms = Some(<< >>)
    /\ layoutData.circulation = Some(<< >>)
    /\ metrics.circulationEfficiency = Some(0)
    /\ metrics.energyEfficiency = Some(0)
    /\ metrics.spaceUtilization = Some(0)
    /\ metrics.accessibilityScore = Some(100)

(***************************************************************************)
(* Export Service                                                          *)
(*                                                                         *)
(* The text an encoder returns is modelled by the sequence of the elements *)
(* it writes, each a record of the values interpolated into the text.      *)
(* Coordinates are in halves of a unit (a centre is x + width / 2); the    *)
(* options of the encoders have their default values (scale 1,             *)
(* includeText true).  An encoder returns [threw, content].                *)
(***************************************************************************)
Content(elements) == [threw |-> FALSE, content |-> elements]
TypeError == [threw |-> TRUE, content |-> << >>]

\* ExportService.calculateBounds
calculateBounds(rooms) ==
    IF ~IsDefined(rooms) \/ Len(Val(rooms)) = 0
    THEN [minX |-> 0, maxX |-> 100, minY |-> 0, maxY |-> 100]
    ELSE calculateBuildingBounds(Val(rooms))

\* the centre of a room, in halves
Centre(room) == <<2 * room.x + room.width, 2 * room.y + room.height>>

RECURSIVE Flatten(_, _)
\* the concatenation of chunks[index], ..., chunks[Len(chunks)]: what the calls of a
\* forEach callback append to the output
Flatten(chunks, index) ==
    IF index > Len(chunks) THEN << >> ELSE chunks[index] \o Flatten(chunks, index + 1)

\* mutant: an unresolved end falls back to the first room
ResolvedEnds_FirstRoom(rooms, path) ==
    LET fromRoom == Find(rooms, path.from)
        toRoom == Find(rooms, path.to)
    IN  IF Len(rooms) = 0 THEN << >>
        ELSE <<IF IsDefined(fromRoom) THEN Val(fromRoom) ELSE rooms[1],
               IF IsDefined(toRoom) THEN Val(toRoom) ELSE rooms[1]>>

\* <<fromRoom, toRoom>> when both rooms.find succeed, else << >>
ResolvedEnds(rooms, path) ==
    LET fromRoom == Find(rooms, path.from)
        toRoom == Find(rooms, path.to)
    IN  IF IsDefined(fromRoom) /\ IsDefined(toRoom)
        THEN <<Val(fromRoom), Val(toRoom)>>
        ELSE << >>

DxfRoom(room) ==
    <<[tag |-> "LWPOLYLINE", layer |-> "ROOMS",
       points |-> <<<<2 * room.x, 2 * room.y>>,
                    <<2 * (room.x + room.width), 2 * room.y>>,
                    <<2 * (room.x + room.width), 2 * (room.y + room.height)>>,
                    <<2 * room.x, 2 * (room.y + room.height)>>,
                    <<2 * room.x, 2 * room.y>>>>],
      [tag |-> "TEXT", layer |-> "TEXT", points |-> <<Centre(room)>>, text |-> room.name]>>

DxfPath(rooms, path) ==
    LET ends == ResolvedEnds(rooms, path)
    IN  IF ends = << >> THEN << >>
        ELSE <<[tag |-> "LINE", layer |-> "CIRCULATION",
                points |-> <<Centre(ends[1]), Centre(ends[2])>>]>>

\* rooms.forEach and circulation.forEach throw on undefined
exportToDXF(layout) ==
    IF ~IsDefined(layout.rooms) \/ ~IsDefined(layout.circulation) THEN TypeError
    ELSE LET rooms == Val(layout.rooms)
             circulation == Val(layout.circulation)
         IN  Content(<<[tag |-> "SECTION", name |-> "HEADER"],
                       [tag |-> "SECTION", name |-> "TABLES"],
                       [tag |-> "LAYER", name |-> "ROOMS"],
                       [tag |-> "LAYER", name |-> "CIRCULATION"],
                       [tag |-> "LAYER", name |-> "TEXT"],
                       [tag |-> "SECTION", name |-> "ENTITIES"]>>
                     \o Flatten([i \in 1..Len(rooms) |-> DxfRoom(rooms[i])], 1)
                     \o Flatten([i \in 1..Len(circulation) |-> DxfPath(rooms, circulation[i])], 1)
                     \o <<[tag |-> "EOF"]>>)

SvgRoom(room) ==
    <<[tag |-> "rect", class |-> "room",
       points |-> <<<<2 * room.x, 2 * room.y>>, <<2 * room.width, 2 * room.height>>>>],
      [tag |-> "text", class |-> "room-text", points |-> <<Centre(room)>>,
       text |-> room.name]>>

SvgPath(rooms, path) ==
    LET ends == ResolvedEnds(rooms, path)
    IN  IF ends = << >> THEN << >>
        ELSE <<[tag |-> "line", class |-> "circulation",
                points |-> <<Centre(ends[1]), Centre(ends[2])>>]>>

\* options.width and options.height are the size of the picture
exportToSVG(layout, width, height) ==
    IF ~IsDefined(layout.rooms) \/ ~IsDefined(layout.circulation) THEN TypeError
    ELSE LET rooms == Val(layout.rooms)
             bounds == calculateBounds(layout.rooms)
             circulation == Val(layout.circulation)
         IN  Content(<<[tag |-> "svg", width |-> width, height |-> height,
                        viewBox |-> <<bounds.minX, bounds.minY,
                                      bounds.maxX - bounds.minX,
                                      bounds.maxY - bounds.minY>>],
                       [tag |-> "rect", class |-> "background"]>>
                     \o Flatten([i \in 1..Len(rooms) |-> SvgRoom(rooms[i])], 1)
                     \o Flatten([i \in 1..Len(circulation) |-> SvgPath(rooms, circulation[i])], 1))

\* ExportService.calculateTotalArea
calculateTotalArea(rooms) == IF ~IsDefined(rooms) THEN 0 ELSE TotalArea(Val(rooms), 1)

\* the HTML report; info is the projectInfo object, which has no metrics and no
\* compliance property here
exportToPDF(layout, info) ==
    LET svg == exportToSVG(layout, 600, 400)
    IN  IF svg.threw THEN TypeError
        ELSE Content(<<[tag |-> "html",
                        projectName |-> IF IsDefined(info.name) /\ Val(info.name) /= << >>
                                        THEN info.name ELSE Some(<<"Untitled Project">>),
                        layoutName |-> "Layout",
                        totalArea |-> calculateTotalArea(layout.rooms),
                        numberOfRooms |-> IF IsDefined(layout.rooms)
                                          THEN Len(Val(layout.rooms)) ELSE 0]>>
                     \o svg.content)

\* the date part of new Date().toISOString()
Today == "2024-01-15"

(***************************************************************************)
(* JSON text is modelled by its syntax tree: a number, a string, an array  *)
(* of values, or an object with its members <<key, value>> in the order    *)
(* they are written.  JSON.stringify writes the own properties of an       *)
(* object in order and leaves out a property whose value is undefined.     *)
(***************************************************************************)
JsonNumber(n) == [t |-> "number", number |-> n]
JsonString(str) == [t |-> "string", string |-> str]
JsonArray(items) == [t |-> "array", items |-> items]
JsonObject(members) == [t |-> "object", members |-> members]

\* mutant: a property with the value 0 is left out, like an undefined one
NumberMember_OmitsZero(key, n) == IF n = 0 THEN << >> ELSE <<<<key, JsonNumber(n)>>>>

\* a number property
NumberMember(key, n) == <<<<key, JsonNumber(n)>>>>

StringMember(key, str) == <<<<key, JsonString(str)>>>>

\* a property that may be undefined, its value already serialised
OptionalMember(key, value) == IF IsDefined(value) THEN <<<<key, Val(value)>>>> ELSE << >>

JsonOfRoom(room) ==
    JsonObject(StringMember("id", room.id) \o StringMember("name", room.name)
               \o NumberMember("area", room.area) \o NumberMember("x", room.x)
               \o NumberMember("y", room.y) \o NumberMember("width", room.width)
               \o NumberMember("height", room.height))

JsonOfPath(path) ==
    JsonObject(StringMember("from", path.from) \o StringMember("to", path.to)
               \o NumberMember("width", path.width))

JsonOfLayout(layout) ==
    JsonObject(
        OptionalMember("rooms",
            IF IsDefined(layout.rooms)
            THEN Some(JsonArray([i \in 1..Len(Val(layout.rooms)) |->
                                    JsonOfRoom(Val(layout.rooms)[i])]))
            ELSE Undefined)
        \o OptionalMember("circulation",
            IF IsDefined(layout.circulation)
            THEN Some(JsonArray([i \in 1..Len(Val(layout.circulation)) |->
                                    JsonOfPath(Val(layout.circulation)[i])]))
            ELSE Undefined))

\* metadata is the projectInfo object
JsonOfMetadata(metadata) ==
    JsonObject(OptionalMember("name",
                   IF IsDefined(metadata.name) THEN Some(JsonString(Val(metadata.name)))
                   ELSE Undefined))

\* JSON.stringify(exportData, null, 2)
exportToJSON(layout, metadata) ==
    Content(<<JsonObject(StringMember("version", "1.0")
                         \o StringMember("exportedAt", Today)
                         \o <<<<"metadata", JsonOfMetadata(metadata)>>>>
                         \o <<<<"layout", JsonOfLayout(layout)>>>>)>>)

CsvRow(room) ==
    <<[tag |-> "row",
       fields |-> <<room.id, room.name, room.area, room.width, room.height, room.x,
                    room.y>>]>>

exportRoomScheduleToCSV(rooms) ==
    IF ~IsDefined(rooms) THEN TypeError
    ELSE Content(<<[tag |-> "header",
                    fields |-> <<"Room ID", "Room Name", "Area (sq ft)", "Width (ft)",
                                 "Height (ft)", "X Position", "Y Position">>]>>
                 \o Flatten([i \in 1..Len(Val(rooms)) |-> CsvRow(Val(rooms)[i])], 1))

\* format.toLowerCase()
ToLowerCase(format) ==
    CASE format = "SVG" -> "svg"
      [] OTHER -> format

\* the characters [a-zA-Z0-9] of the project names of the inputs
AlphaNumerics == {"A", "b", "1"}

\* mutant: the characters outside the class are removed
Sanitize_Strips(name) == SelectSeq(name, LAMBDA c : c \in AlphaNumerics)

\* name.replace(/[^a-zA-Z0-9]/g, '_'), the name a sequence of characters
Sanitize(name) ==
    [i \in 1..Len(name) |-> IF name[i] \in AlphaNumerics THEN name[i] ELSE "_"]

\* projectInfo.name?.replace(...) || 'layout'
ProjectName(info) ==
    IF IsDefined(info.name) /\ Sanitize(Val(info.name)) /= << >>
    THEN Sanitize(Val(info.name))
    ELSE <<"l", "a", "y", "o", "u", "t">>

\* the switch: [known, encoded, mimeType, extension]
Encode(layout, info, format) ==
    LET lower == ToLowerCase(format)
    IN  CASE lower = "dxf" ->
                [known |-> TRUE, encoded |-> exportToDXF(layout),
                 mimeType |-> "application/dxf", extension |-> "dxf"]
          [] lower = "svg" ->
                [known |-> TRUE, encoded |-> exportToSVG(layout, 800, 600),
                 mimeType |-> "image/svg+xml", extension |-> "svg"]
          [] lower = "pdf" ->
                [known |-> TRUE, encoded |-> exportToPDF(layout, info),
                 mimeType |-> "text/html", extension |-> "html"]
          [] lower = "json" ->
                [known |-> TRUE, encoded |-> exportToJSON(layout, info),
                 mimeType |-> "application/json", extension |-> "json"]
          [] lower = "csv" ->
                [known |-> TRUE, encoded |-> exportRoomScheduleToCSV(layout.rooms),
                 mimeType |-> "text/csv", extension |-> "csv"]
          [] OTHER ->
                [known |-> FALSE, encoded |-> TypeError, mimeType |-> "",
                 extension |-> ""]

\* the body of the for-of loop: the record stored for `format`
ExportEntry(layout, info, format) ==
    LET e == Encode(layout, info, format)
    IN  IF ~e.known
        THEN [success |-> FALSE, error |-> <<"Unsupported format: ", format>>]
        ELSE IF e.encoded.threw
        THEN [success |-> FALSE, error |-> <<"TypeError">>]
        ELSE [success |-> TRUE,
              blob |-> [content |-> e.encoded.content, type |-> e.mimeType],
              filename |-> <<ProjectName(info), "_", Today, ".", e.extension>>,
              size |-> Len(e.encoded.content)]

\* mutant: the record is stored under the lower-cased name
ResultKey_LowerCase(format) == ToLowerCase(format)

\* the key of results[format]
ResultKey(format) == format

(***************************************************************************)
(* SpecExport: one call of exportMultipleFormats(layoutData, projectInfo,  *)
(* formats).                                                               *)
(*   pc = "start"     called                                               *)
(*   pc = "loop"      in the for-of loop, before formats[formatIndex]      *)
(*   pc = "done"      the promise is resolved with exportResults           *)
(*   pc = "rejected"  the promise is rejected (projectInfo.name threw)     *)
(***************************************************************************)
\* two rooms at most matter to the encoders' handling of paths
ExportRooms ==
    {Undefined} \cup
    {Some([i \in 1..n |-> RowRoom(i, <<"Office", 50>>)]) : n \in 0..MaxRooms}

ExportPaths == {Path("r1", "r2", 4), Path("r1", "r9", 4)}

ExportLayouts ==
    {[rooms |-> r, circulation |-> c] :
        r \in ExportRooms, c \in CirculationsOf(ExportPaths)}

FormatNames == {"dxf", "svg", "pdf", "json", "csv", "SVG", "xyz"}

ProjectInfos ==
    {Undefined} \cup
    {Some([name |-> n]) : n \in {Undefined, Some(<<"A", "b", "1">>), Some(<<"A", " ", "b">>)}}

InitExport ==
    /\ layoutData \in ExportLayouts
    /\ projectInfo \in ProjectInfos
    /\ formats \in SeqsUpTo(FormatNames, MaxFormats)
    /\ formatIndex = 0
    /\ exportResults = << >>
    /\ pc = "start"
    /\ IdleCompliance
    /\ IdleMetrics
    /\ IdleObjects
    /\ IdleConcurrent
    /\ IdleGeneration
    /\ IdleOthers

\* lines 426-428: results, timestamp, projectName
ExportStart ==
    /\ pc = "start"
    /\ IF IsDefined(projectInfo)
       THEN pc' = "loop" /\ formatIndex' = 1
       ELSE pc' = "rejected" /\ formatIndex' = formatIndex
    /\ UNCHANGED <<layoutData, projectInfo, formats, exportResults, complianceVars,
                   metricsVars,
                   objectVars, calls,
                   generationVars, otherVars>>

\* lines 430-484: one iteration of the loop, the try and its catch
ExportFormatStep ==
    /\ pc = "loop"
    /\ formatIndex <= Len(formats)
    /\ LET format == formats[formatIndex]
       IN  exportResults' =
               (ResultKey(format) :> ExportEntry(layoutData, Val(projectInfo), format))
               @@ exportResults
    /\ formatIndex' = formatIndex + 1
    /\ UNCHANGED <<layoutData, projectInfo, formats, pc, complianceVars, metricsVars,
                   objectVars, calls,
                   generationVars, otherVars>>

\* line 486
ExportReturn ==
    /\ pc = "loop"
    /\ formatIndex > Len(formats)
    /\ pc' = "done"
    /\ UNCHANGED <<layoutData, projectInfo, formats, formatIndex, exportResults,
                   complianceVars, metricsVars,
                   objectVars, calls,
                   generationVars, otherVars>>

NextExport ==
    \/ ExportStart
    \/ ExportFormatStep
    \/ ExportReturn

SpecExport == InitExport /\ [][NextExport]_vars

(***************************************************************************)
(* Claims about exportMultipleFormats, under SpecExport.                   *)
(***************************************************************************)
SupportedFormats == {"dxf", "svg", "pdf", "json", "csv"}

\* the formats the loop is done with
Processed == {formats[i] : i \in 1..(formatIndex - 1)}

\* the encoder of `lower` fails on layoutData
EncoderFails(lower) ==
    CASE lower \in {"dxf", "svg", "pdf"} ->
            ~IsDefined(layoutData.rooms) \/ ~IsDefined(layoutData.circulation)
      [] lower = "csv" -> ~IsDefined(layoutData.rooms)
      [] OTHER -> FALSE

\* C8: given a projectInfo object, exportMultipleFormats does not reject; it goes
\* through the formats in order and the record it builds has exactly one entry
\* per requested name, under the name as requested: {success: true, filename, ...}
\* for dxf, svg, pdf, json and csv in any case unless the encoder fails, else
\* {success: false, error}; an entry is the one the format gets when it is
\* exported alone, whatever became of the other formats.
C8_EntryPerFormat ==
    /\ IsDefined(projectInfo) => pc /= "rejected"
    /\ pc = "done" => formatIndex = Len(formats) + 1
    /\ pc \in {"loop", "done"}
       => /\ formatIndex \in 1..(Len(formats) + 1)
          /\ DOMAIN exportResults = Processed
          /\ \A f \in Processed :
                LET entry == exportResults[f]
                    lower == ToLowerCase(f)
                IN  /\ entry = ExportEntry(layoutData, Val(projectInfo), f)
                    /\ IF lower \in SupportedFormats /\ ~EncoderFails(lower)
                       THEN /\ entry.success
                            /\ DOMAIN entry = {"success", "blob", "filename", "size"}
                            /\ entry.filename[5] = (IF lower = "pdf" THEN "html" ELSE lower)
                       ELSE /\ ~entry.success
                            /\ DOMAIN entry = {"success", "error"}

\* an unsupported name, then svg in upper case: the batch is done and has a
\* failure entry and a success entry
C8_Witness ==
    /\ pc = "done"
    /\ formats = <<"xyz", "SVG">>
    /\ ~exportResults["xyz"].success
    /\ exportResults["SVG"].success
    /\ Conforming

(***************************************************************************)
(* Claim about paths that lead to no room, under SpecMetrics.              *)
(***************************************************************************)
CountTag(content, tag) == Cardinality({i \in 1..Len(content) : content[i].tag = tag})

ResolvablePaths == {i \in 1..Len(CirculationPaths) : ~IsDangling(CirculationPaths[i])}

WithoutDanglingPaths ==
    [layoutData EXCEPT
        !.circulation = Some(SelectSeq(CirculationPaths, LAMBDA path : ~IsDangling(path)))]

\* C9: for a layout with rooms and circulation, calculateCirculationEfficiency
\* returns what it returns for the layout without a path that leads to no room
\* (without any one of them, and without all of them); exportToDXF and exportToSVG
\* do not throw and emit as many LINE / line elements as there are paths with both
\* ends resolvable.
C9_DanglingPathsSkipped ==
    Conforming
    => /\ \A i \in 1..Len(CirculationPaths) :
             IsDangling(CirculationPaths[i])
             => calculateCirculationEfficiency(layoutData)
                = calculateCirculationEfficiency(WithoutPath(layoutData, i))
       /\ IsDefined(metrics.circulationEfficiency)
             => Val(metrics.circulationEfficiency)
                = calculateCirculationEfficiency(WithoutDanglingPaths)
       /\ ~exportToDXF(layoutData).threw
       /\ CountTag(exportToDXF(layoutData).content, "LINE") = Cardinality(ResolvablePaths)
       /\ ~exportToSVG(layoutData, 800, 600).threw
       /\ CountTag(exportToSVG(layoutData, 800, 600).content, "line")
          = Cardinality(ResolvablePaths)

\* two rooms, a path between them that costs efficiency and a path to no room
C9_Witness ==
    /\ Conforming
    /\ Len(LayoutRooms) = 2
    /\ Cardinality(ResolvablePaths) = 1
    /\ Len(CirculationPaths) = 2
    /\ IsDefined(metrics.circulationEfficiency)
    /\ Val(metrics.circulationEfficiency) < 100

(***************************************************************************)
(* Further claims about checkCompliance, under Spec.                       *)
(***************************************************************************)
\* every requested code is a rule table of the requested country
AllCodesRegistered ==
    /\ RegistryHasCountry
    /\ codeSettings.codes /= << >>
    /\ \A i \in 1..Len(codeSettings.codes) :
          codeSettings.codes[i] \in DOMAIN BUILDING_CODES[codeSettings.country]

\* C11 as stated: for a layout without rooms or without circulation, under
\* settings that name rule tables of the country, checkCompliance resolves; it
\* does not reject.
C11_MissingDataResolves ==
    (AllCodesRegistered
     /\ (~IsDefined(layoutData.rooms) \/ ~IsDefined(layoutData.circulation)))
    => ~Rejected

(***************************************************************************)
(* Further claims about the encoders, under SpecExport.  JSON.parse reads  *)
(* an object text into an object that has the members of the text, the     *)
(* last of two members of one key; a property the text does not have       *)
(* reads as undefined.                                                     *)
(***************************************************************************)
MembersOf(json, key) == SelectSeq(json.members, LAMBDA member : member[1] = key)

HasMember(json, key) == Len(MembersOf(json, key)) > 0

MemberValue(json, key) == MembersOf(json, key)[Len(MembersOf(json, key))][2]

ParsedNumber(json, key) ==
    IF HasMember(json, key) THEN Some(MemberValue(json, key).number) ELSE Undefined

ParsedString(json, key) ==
    IF HasMember(json, key) THEN Some(MemberValue(json, key).string) ELSE Undefined

ParsedRoom(json) ==
    [id |-> ParsedString(json, "id"), name |-> ParsedString(json, "name"),
     area |-> ParsedNumber(json, "area"), x |-> ParsedNumber(json, "x"),
     y |-> ParsedNumber(json, "y"), width |-> ParsedNumber(json, "width"),
     height |-> ParsedNumber(json, "height")]

ParsedPath(json) ==
    [from |-> ParsedString(json, "from"), to |-> ParsedString(json, "to"),
     width |-> ParsedNumber(json, "width")]

ParsedLayout(json) ==
    [rooms |->
        IF HasMember(json, "rooms")
        THEN LET items == MemberValue(json, "rooms").items
             IN  Some([i \in 1..Len(items) |-> ParsedRoom(items[i])])
        ELSE Undefined,
     circulation |->
        IF HasMember(json, "circulation")
        THEN LET items == MemberValue(json, "circulation").items
             IN  Some([i \in 1..Len(items) |-> ParsedPath(items[i])])
        ELSE Undefined]

\* every property of `object` is the property of `parsed`, defined
SameFields(parsed, object) ==
    /\ DOMAIN parsed = DOMAIN object
    /\ \A k \in DOMAIN object : parsed[k] = Some(object[k])

\* both undefined, or sequences of the same length with the same elements in order
SameElements(parsed, original) ==
    /\ IsDefined(parsed) <=> IsDefined(original)
    /\ IsDefined(original)
       => /\ Len(Val(parsed)) = Len(Val(original))
          /\ \A i \in 1..Len(Val(original)) : SameFields(Val(parsed)[i], Val(original)[i])

DeepEqualsLayout(parsed, layout) ==
    /\ SameElements(parsed.rooms, layout.rooms)
    /\ SameElements(parsed.circulation, layout.circulation)

JsonFormats == {f \in DOMAIN exportResults : ToLowerCase(f) = "json"}

SuccessfulFormats == {f \in DOMAIN exportResults : exportResults[f].success}

\* the name of the project, "" when it has none
RawProjectName ==
    IF IsDefined(Val(projectInfo).name) THEN Val(Val(projectInfo).name) ELSE << >>

\* the extension and the MIME type of a format
ExpectedExtension(lower) == IF lower = "pdf" THEN "html" ELSE lower

ExpectedMimeType(lower) ==
    CASE lower = "dxf" -> "application/dxf"
      [] lower = "svg" -> "image/svg+xml"
      [] lower = "pdf" -> "text/html"
      [] lower = "json" -> "application/json"
      [] lower = "csv" -> "text/csv"

\* the name without its characters outside [A-Za-z0-9_]
Stripped(name) == SelectSeq(name, LAMBDA c : c \in AlphaNumerics \cup {"_"})

FilenameTail(filename, f) ==
    /\ Len(filename) = 5
    /\ filename[2] = "_"
    /\ filename[3] = Today
    /\ filename[4] = "."
    /\ filename[5] = ExpectedExtension(ToLowerCase(f))
    /\ exportResults[f].blob.type = ExpectedMimeType(ToLowerCase(f))

\* C13 as stated: the filename of a successful entry is the project name without
\* its characters outside [A-Za-z0-9_], then _, the date, a dot and the extension.
C13_FilenameStripped ==
    \A f \in SuccessfulFormats :
        /\ exportResults[f].filename[1] = Stripped(RawProjectName)
        /\ FilenameTail(exportResults[f].filename, f)

\* C13, amended: the filename of a successful entry is the sanitized project name,
\* then _, the date, a dot and the extension dxf, svg, html (for pdf), json or csv,
\* with the MIME type of the format.  The sanitized name has the length of the
\* project name, its letters and digits in place and _ in the place of every
\* other character; it is "layout" when the project has no name or an empty one.
C13_FilenameReplaced ==
    \A f \in SuccessfulFormats :
        LET sanitized == exportResults[f].filename[1]
        IN  /\ FilenameTail(exportResults[f].filename, f)
            /\ IF RawProjectName = << >>
               THEN sanitized = <<"l", "a", "y", "o", "u", "t">>
               ELSE /\ Len(sanitized) = Len(RawProjectName)
                    /\ \A i \in 1..Len(sanitized) :
                          sanitized[i] = (IF RawProjectName[i] \in AlphaNumerics
                                          THEN RawProjectName[i] ELSE "_")

\* a project name with a space in it, exported as pdf
C13_Witness ==
    /\ pc = "done"
    /\ RawProjectName = <<"A", " ", "b">>
    /\ \E f \in SuccessfulFormats :
          /\ ToLowerCase(f) = "pdf"
          /\ exportResults[f].filename = <<<<"A", "_", "b">>, "_", Today, ".", "html">>

(***************************************************************************)
(* Claims about the counters of checkCompliance, under Spec.               *)
(***************************************************************************)
Count(condition, n) == IF condition THEN n ELSE 0

\* the checks runCodeChecks executes for one table
ExecutedChecks(codeData) ==
    LET rules == Val(codeData.rules)
        hasPaths == IsDefined(layoutData.circulation)
        hasRooms == IsDefined(layoutData.rooms)
    IN  Count(Has(rules, "corridorWidth") /\ hasPaths, Len(CirculationPaths))
        + Count(Has(rules, "roomArea") /\ hasRooms,
                IF Has(rules, "roomArea")
                THEN Len(RoomsWithRequirement(LayoutRooms, rules)) ELSE 0)
        + Count(Has(rules, "accessibility") /\ hasRooms,
                IF Has(rules, "accessibility")
                THEN Count(Has(rules.accessibility, "corridorWidth") /\ hasPaths,
                           Len(CirculationPaths))
                     + Count(Has(rules.accessibility, "turningSpace"), Len(LayoutRooms))
                ELSE 0)
        + Count(Has(rules, "doorWidth") \/ Has(rules, "exitWidth"), Len(CirculationPaths))

RECURSIVE ExecutedChecksUpTo(_)
\* the checks executed for the first n tables
ExecutedChecksUpTo(n) ==
    IF n = 0 THEN 0 ELSE ExecutedChecks(applicableCodes[n]) + ExecutedChecksUpTo(n - 1)

\* C14: on every result checkCompliance returns, summary.totalChecks is
\* passed + failed + warnings and is the number of checks executed; failed is the
\* number of Issues of the checks and warnings the number of Warnings.  (While the
\* tables are gone through, the running counter is that sum already.)
C14_TotalChecks ==
    /\ Resolved
       => /\ results.summary.totalChecks
             = results.summary.passed + results.summary.failed + results.summary.warnings
          /\ results.summary.totalChecks = ExecutedChecksUpTo(Len(applicableCodes))
          /\ results.summary.warnings = Len(results.warnings)
          /\ results.status /= "error" => results.summary.failed = Len(results.issues)
    /\ pc = "loop"
       => /\ results.summary.totalChecks
             = results.summary.passed + results.summary.failed + results.summary.warnings
          /\ results.summary.totalChecks = ExecutedChecksUpTo(codeIndex - 1)

\* a result with checks that passed, checks that failed and checks that warned
C14_Witness ==
    /\ Resolved
    /\ results.summary.passed > 0
    /\ results.summary.failed > 0
    /\ results.summary.warnings > 0
    /\ Len(applicableCodes) = 2

(***************************************************************************)
(* Claim about inferRoomType, under Spec.                                  *)
(***************************************************************************)
RoomNames ==
    {"Office", "Conference Room", "Meeting Room", "Bathroom", "Restroom", "Bedroom",
     "Kitchen", "Living Room", "Office Kitchenette", "Kitchen Office", "Bathroom Office",
     "Living Room Kitchen", "Bedroom Restroom", "Lobby"}

\* the types in the order of the claim, and the substrings of each
TypeOrder == <<"office", "meeting", "restroom", "bedroom", "kitchen", "living">>

TypeKeywords(type) ==
    CASE type = "meeting" -> {"meeting", "conference"}
      [] type = "restroom" -> {"restroom", "bathroom"}
      [] OTHER -> {type}

MatchesType(name, k) == Keywords(name) \cap TypeKeywords(TypeOrder[k]) /= {}

\* inferRoomType gives every name the first type of TypeOrder it matches, and
\* "general" when it matches none
FirstMatchForAllNames ==
    \A name \in RoomNames :
        IF \E k \in 1..Len(TypeOrder) : MatchesType(name, k)
        THEN \E k \in 1..Len(TypeOrder) :
                /\ MatchesType(name, k)
                /\ \A j \in 1..(k - 1) : ~MatchesType(name, j)
                /\ inferRoomType(name) = TypeOrder[k]
        ELSE inferRoomType(name) = "general"

\* C15: inferRoomType gives the earliest type, in the order office, meeting,
\* restroom, bedroom, kitchen, living, one of whose substrings the lower-cased name
\* contains, and "general" when it contains none; so a room "Office Kitchenette" is
\* checked against the office minimum of a table, and an Issue for it has that
\* minimum as `required`.
C15_FirstMatchWins ==
    /\ FirstMatchForAllNames
    /\ Resolved
       => /\ \A i \in 1..Len(results.issues) :
                (results.issues[i].type = "room_area"
                 /\ results.issues[i].location = RoomLocation(
                        RowRoom(1, <<"Office Kitchenette", 50>>)))
                => results.issues[i].required = 80
          /\ (IsSettings("US", <<"IBC">>)
              /\ \E r \in 1..Len(LayoutRooms) : LayoutRooms[r].name = "Office Kitchenette")
             => \E i \in 1..Len(results.issues) :
                   /\ results.issues[i].type = "room_area"
                   /\ results.issues[i].actual = 50
                   /\ results.issues[i].required = 80

\* an "Office Kitchenette" of 50 sq ft, alone, has been checked under US / IBC
C15_Witness ==
    /\ Resolved
    /\ IsSettings("US", <<"IBC">>)
    /\ Len(LayoutRooms) = 1
    /\ LayoutRooms[1].name = "Office Kitchenette"
    /\ Len(SelectSeq(results.issues, LAMBDA issue : issue.type = "room_area")) = 1

(***************************************************************************)
(* Objects.  A LayoutData value in use is an object that refers to its two *)
(* arrays, which refer to the room and path objects.  `heap` is the        *)
(* sequence of the objects allocated, the address of an object its index;  *)
(* a function that assigns to a property of an object changes its cell, a  *)
(* function that creates an object appends a cell.                         *)
(***************************************************************************)
LayoutCell(rooms, circulation) ==
    [kind |-> "layout", rooms |-> rooms, circulation |-> circulation]

ArrayCell(items) == [kind |-> "array", items |-> items]

ObjectCell(value) == [kind |-> "object", value |-> value]

\* new objects for `values` and a new array of them, the last cell of the result
AllocArray(h, values) ==
    h \o [i \in 1..Len(values) |-> ObjectCell(values[i])]
      \o <<ArrayCell([i \in 1..Len(values) |-> Len(h) + i])>>

\* new objects for all of the layout value, the layout object the last cell
AllocLayout(h, value) ==
    LET h1 == IF IsDefined(value.rooms) THEN AllocArray(h, Val(value.rooms)) ELSE h
        rooms == IF IsDefined(value.rooms) THEN Some(Len(h1)) ELSE Undefined
        h2 == IF IsDefined(value.circulation)
              THEN AllocArray(h1, Val(value.circulation)) ELSE h1
        circulation == IF IsDefined(value.circulation) THEN Some(Len(h2)) ELSE Undefined
    IN  Append(h2, LayoutCell(rooms, circulation))

\* the values of the elements of the array at `address`
ArrayValues(h, address) ==
    [i \in 1..Len(h[address].items) |-> h[h[address].items[i]].value]

\* the value of the layout object at `address`
Deref(h, address) ==
    [rooms |-> IF IsDefined(h[address].rooms)
               THEN Some(ArrayValues(h, Val(h[address].rooms))) ELSE Undefined,
     circulation |-> IF IsDefined(h[address].circulation)
                     THEN Some(ArrayValues(h, Val(h[address].circulation)))
                     ELSE Undefined]

\* the addresses of the array at `address` and of its elements
ArrayAddresses(h, address) ==
    IF IsDefined(address)
    THEN {Val(address)} \cup {h[Val(address)].items[i] : i \in 1..Len(h[Val(address)].items)}
    ELSE {}

\* the addresses of the layout object at `address`, its arrays and their elements
Reachable(h, address) ==
    {address} \cup ArrayAddresses(h, h[address].rooms)
              \cup ArrayAddresses(h, h[address].circulation)

\* the object JSON.parse makes of an object text: the properties the text has
ObjectOfParsed(parsed) ==
    [k \in {key \in DOMAIN parsed : IsDefined(parsed[key])} |-> Val(parsed[k])]

\* the value JSON.parse makes of the text of a layout
LayoutOfJson(json) ==
    LET parsed == ParsedLayout(json)
    IN  [rooms |->
            IF IsDefined(parsed.rooms)
            THEN Some([i \in 1..Len(Val(parsed.rooms)) |->
                          ObjectOfParsed(Val(parsed.rooms)[i])])
            ELSE Undefined,
         circulation |->
            IF IsDefined(parsed.circulation)
            THEN Some([i \in 1..Len(Val(parsed.circulation)) |->
                          ObjectOfParsed(Val(parsed.circulation)[i])])
            ELSE Undefined]

\* the value of JSON.parse(JSON.stringify(layout))
ParsedLayoutValue(value) == LayoutOfJson(JsonOfLayout(value))

\* mutant: optimizedLayout is layoutData itself
DeepClone_Alias(h, address) == [heap |-> h, address |-> address]

\* line 161: JSON.parse(JSON.stringify(layoutData)), all objects of it new
DeepClone(h, address) ==
    LET cloned == AllocLayout(h, ParsedLayoutValue(Deref(h, address)))
    IN  [heap |-> cloned, address |-> Len(cloned)]

\* the callback of rooms.map, lines 165-170
ScaledRoom(room, roomSize) ==
    [room EXCEPT !.width = room.width * roomSize,
                 !.height = room.height * roomSize,
                 !.area = room.area * (roomSize * roomSize)]

\* optimizeLayoutParameters(layoutData, parameters), layoutData the object at
\* `address`: [threw, heap, address]
optimizeLayoutParameters(h, address, params) ==
    LET clone == DeepClone(h, address)
        rooms == clone.heap[clone.address].rooms
    IN  IF ~IsDefined(params)
        THEN [threw |-> TRUE, heap |-> clone.heap, address |-> Undefined]
        ELSE IF ~IsDefined(Val(params).roomSize) \/ Val(Val(params).roomSize) = 0
        THEN [threw |-> FALSE, heap |-> clone.heap, address |-> Some(clone.address)]
        ELSE IF ~IsDefined(rooms)
        THEN [threw |-> TRUE, heap |-> clone.heap, address |-> Undefined]
        ELSE LET values == ArrayValues(clone.heap, Val(rooms))
                 scaled == [i \in 1..Len(values) |->
                               ScaledRoom(values[i], Val(Val(params).roomSize))]
                 mapped == AllocArray(clone.heap, scaled)
             IN  [threw |-> FALSE,
                  heap |-> [mapped EXCEPT ![clone.address].rooms = Some(Len(mapped))],
                  address |-> Some(clone.address)]

(***************************************************************************)
(* SpecObjects: a layout object, and calls in any order of the score       *)
(* functions, of checkCompliance, of the encoders and of                   *)
(* optimizeLayoutParameters with that object as their layoutData.  A call  *)
(* is one step here.  lastCall is [name, threw] of the call made last.     *)
(***************************************************************************)
ScoreFunctions ==
    {"calculateCirculationEfficiency", "calculateDaylightHours",
     "calculateEnergyEfficiency", "calculateSpaceUtilization",
     "calculateAccessibilityScore"}

Encoders ==
    {"exportToDXF", "exportToSVG", "exportToPDF", "exportToJSON",
     "exportRoomScheduleToCSV"}

OptimizationParameters ==
    {Undefined} \cup {Some([roomSize |-> size]) : size \in {Undefined, Some(0), Some(2)}}

\* the layout object the calls are given: the first one allocated
InputAddress == CHOOSE a \in 1..Len(heap) :
                    /\ heap[a].kind = "layout"
                    /\ \A b \in 1..(a - 1) : heap[b].kind /= "layout"

LayoutObjects == {a \in 1..Len(heap) : heap[a].kind = "layout"}

InitObjects ==
    /\ layoutData \in ExportLayouts
    /\ heap = AllocLayout(<< >>, layoutData)
    /\ parameters \in OptimizationParameters
    /\ optimized = Undefined
    /\ lastCall = Undefined
    /\ pc = "start"
    /\ IdleCompliance
    /\ IdleMetrics
    /\ IdleExport
    /\ IdleConcurrent
    /\ IdleGeneration
    /\ IdleOthers

\* a score function reads the layout and returns a number
CallScoreFunction ==
    /\ \E name \in ScoreFunctions :
          lastCall' = Some([name |-> name, threw |-> FALSE])
    /\ UNCHANGED <<layoutData, pc, heap, parameters, optimized, complianceVars,
                   metricsVars, exportVars, calls,
                   generationVars, otherVars>>

\* checkCompliance reads the layout and writes its own results object
CallCheckCompliance ==
    /\ \E settings \in {[country |-> "US", codes |-> <<"IBC", "ADA">>],
                        [country |-> "CA", codes |-> <<"NBC">>]} :
          lastCall' = Some([name |-> "checkCompliance",
                            threw |-> checkCompliance(Deref(heap, InputAddress),
                                                      settings).threw])
    /\ UNCHANGED <<layoutData, pc, heap, parameters, optimized, complianceVars,
                   metricsVars, exportVars, calls,
                   generationVars, otherVars>>

EncoderResult(name, layout) ==
    CASE name = "exportToDXF" -> exportToDXF(layout)
      [] name = "exportToSVG" -> exportToSVG(layout, 800, 600)
      [] name = "exportToPDF" -> exportToPDF(layout, [name |-> Undefined])
      [] name = "exportToJSON" -> exportToJSON(layout, [name |-> Undefined])
      [] name = "exportRoomScheduleToCSV" -> exportRoomScheduleToCSV(layout.rooms)

\* an encoder reads the layout and returns a text
CallEncoder ==
    /\ \E name \in Encoders :
          lastCall' = Some([name |-> name,
                            threw |-> EncoderResult(name, Deref(heap, InputAddress)).threw])
    /\ UNCHANGED <<layoutData, pc, heap, parameters, optimized, complianceVars,
                   metricsVars, exportVars, calls,
                   generationVars, otherVars>>

CallOptimizeLayoutParameters ==
    /\ Cardinality(LayoutObjects) <= MaxOptimizations
    /\ LET r == optimizeLayoutParameters(heap, InputAddress, parameters)
       IN  /\ heap' = r.heap
           /\ optimized' = r.address
           /\ lastCall' = Some([name |-> "optimizeLayoutParameters", threw |-> r.threw])
    /\ UNCHANGED <<layoutData, pc, parameters, complianceVars, metricsVars, exportVars,
                   calls,
                   generationVars, otherVars>>

NextObjects ==
    \/ CallScoreFunction
    \/ CallCheckCompliance
    \/ CallEncoder
    \/ CallOptimizeLayoutParameters

SpecObjects == InitObjects /\ [][NextObjects]_vars

\* the cells of the layout object as they were made
InitialHeap == AllocLayout(<< >>, layoutData)

\* C17: whatever calls were made, the layout object, its rooms and circulation
\* arrays and the objects in them are as they were (same elements in the same
\* order, same values of all fields), and the object optimizeLayoutParameters
\* returned shares no object, none of its arrays and none of its rooms or paths,
\* with them.
C17_LayoutNeverMutated ==
    /\ Deref(heap, InputAddress) = layoutData
    /\ \A a \in 1..Len(InitialHeap) : heap[a] = InitialHeap[a]
    /\ IsDefined(optimized)
       => /\ Val(optimized) /= InputAddress
          /\ Reachable(heap, Val(optimized)) \cap Reachable(heap, InputAddress) = {}

\* two rooms have been scaled by 2 into a layout of its own
C17_Witness ==
    /\ IsDefined(optimized)
    /\ IsDefined(layoutData.rooms)
    /\ Len(Val(layoutData.rooms)) = 2
    /\ parameters = Some([roomSize |-> Some(2)])
    /\ Val(Deref(heap, Val(optimized)).rooms)[2].width = 2 * Val(layoutData.rooms)[2].width
    /\ Val(Deref(heap, Val(optimized)).rooms)[2].area = 4 * Val(layoutData.rooms)[2].area

(***************************************************************************)
(* SpecConcurrent: MaxCalls calls on one layout, each a call of            *)
(* checkCompliance or of a score function.  A call of checkCompliance      *)
(* gives way to the other calls at the await of its loop; a score function *)
(* runs from call to return in one step.  calls[i] is the state of call i: *)
(* its arguments, its position and its local variables.                    *)
(***************************************************************************)
\* mutant: one results object for all calls
ResultsOwner_Shared(i) == 1

\* the call whose `results` object call i writes to: every call makes its own
\* (const results = {...})
ResultsOwner(i) == i

ComplianceCall(settings) ==
    [kind |-> "checkCompliance", name |-> "checkCompliance", settings |-> settings,
     pc |-> "start", applicableCodes |-> << >>, codeIndex |-> 0, results |-> NewResults,
     value |-> 0]

ScoreCall(name) ==
    [kind |-> "score", name |-> name, settings |-> [country |-> "US", codes |-> << >>],
     pc |-> "start", applicableCodes |-> << >>, codeIndex |-> 0, results |-> NewResults,
     value |-> 0]

ScoreValue(name, layout) ==
    CASE name = "calculateCirculationEfficiency" -> calculateCirculationEfficiency(layout)
      [] name = "calculateDaylightHours" -> calculateDaylightHours(layout)
      [] name = "calculateEnergyEfficiency" -> calculateEnergyEfficiency(layout)
      [] name = "calculateSpaceUtilization" -> calculateSpaceUtilization(layout)
      [] name = "calculateAccessibilityScore" -> calculateAccessibilityScore(layout)

ConcurrentSettings ==
    {[country |-> "US", codes |-> <<"IBC", "ADA">>],
     [country |-> "US", codes |-> <<"ADA">>],
     [country |-> "CA", codes |-> <<"NBC">>]}

ConcurrentCalls ==
    {ComplianceCall(settings) : settings \in ConcurrentSettings}
    \cup {ScoreCall(name) : name \in {"calculateCirculationEfficiency",
                                      "calculateAccessibilityScore"}}

\* offices of 50 sq ft in a row and paths of 3 ft between the first two
ConcurrentLayouts ==
    {[rooms |-> Some([i \in 1..n |-> RowRoom(i, <<"Office", 50>>)]), circulation |-> c] :
        n \in 0..MaxRooms,
        c \in {Undefined} \cup {Some([i \in 1..k |-> Path("r1", "r2", 3)]) : k \in 0..MaxPaths}}

InitConcurrent ==
    /\ layoutData \in ConcurrentLayouts
    /\ calls \in [1..MaxCalls -> ConcurrentCalls]
    /\ pc = "start"
    /\ IdleCompliance
    /\ IdleMetrics
    /\ IdleExport
    /\ IdleObjects
    /\ IdleGeneration
    /\ IdleOthers

ResultsOf(i) == calls[ResultsOwner(i)].results

\* calls with the results object of call i set to `res`
WithResults(c, i, res) == [c EXCEPT ![ResultsOwner(i)].results = res]

\* call i, lines 100-126
ConcurrentStart(i) ==
    /\ calls[i].kind = "checkCompliance"
    /\ calls[i].pc = "start"
    /\ LET codes == getApplicableCodes(calls[i].settings.country, calls[i].settings.codes)
       IN  calls' =
              IF Len(codes) = 0
              THEN [WithResults(calls, i, ConfigErrorResults) EXCEPT
                        ![i].applicableCodes = codes, ![i].pc = "done"]
              ELSE [WithResults(calls, i, NewResults) EXCEPT
                        ![i].applicableCodes = codes, ![i].codeIndex = 1,
                        ![i].pc = "loop"]
    /\ UNCHANGED <<layoutData, pc, complianceVars, metricsVars, exportVars, objectVars,
                   generationVars, otherVars>>

\* call i, lines 129-131: one iteration and its await
ConcurrentRunCodeChecks(i) ==
    /\ calls[i].kind = "checkCompliance"
    /\ calls[i].pc = "loop"
    /\ calls[i].codeIndex <= Len(calls[i].applicableCodes)
    /\ LET r == runCodeChecks(layoutData, calls[i].applicableCodes[calls[i].codeIndex],
                              ResultsOf(i))
       IN  calls' =
              IF r.threw
              THEN [WithResults(calls, i, r.results) EXCEPT ![i].pc = "rejected"]
              ELSE [WithResults(calls, i, r.results) EXCEPT ![i].codeIndex = @ + 1]
    /\ UNCHANGED <<layoutData, pc, complianceVars, metricsVars, exportVars, objectVars,
                   generationVars, otherVars>>

\* call i, lines 133-142
ConcurrentReturn(i) ==
    /\ calls[i].kind = "checkCompliance"
    /\ calls[i].pc = "loop"
    /\ calls[i].codeIndex > Len(calls[i].applicableCodes)
    /\ calls' = [WithResults(calls, i, Finish(ResultsOf(i))) EXCEPT ![i].pc = "done"]
    /\ UNCHANGED <<layoutData, pc, complianceVars, metricsVars, exportVars, objectVars,
                   generationVars, otherVars>>

\* call i, a score function from call to return
ConcurrentScore(i) ==
    /\ calls[i].kind = "score"
    /\ calls[i].pc = "start"
    /\ calls' = [calls EXCEPT ![i].value = ScoreValue(calls[i].name, layoutData),
                              ![i].pc = "done"]
    /\ UNCHANGED <<layoutData, pc, complianceVars, metricsVars, exportVars, objectVars,
                   generationVars, otherVars>>

NextConcurrent ==
    \E i \in 1..MaxCalls :
        \/ ConcurrentStart(i)
        \/ ConcurrentRunCodeChecks(i)
        \/ ConcurrentReturn(i)
        \/ ConcurrentScore(i)

SpecConcurrent == InitConcurrent /\ [][NextConcurrent]_vars

\* C18: in every interleaving, a call that has ended has ended as it does when it
\* runs alone: a call of checkCompliance is resolved with the result of
\* checkCompliance(layoutData, settings), or rejected when that call is, and a
\* score function has returned its value for layoutData.
C18_CallsDoNotInterfere ==
    \A i \in 1..MaxCalls :
        LET alone == checkCompliance(layoutData, calls[i].settings)
        IN  /\ (calls[i].kind = "checkCompliance" /\ calls[i].pc = "done")
               => (~alone.threw /\ calls[i].results = alone.results)
            /\ (calls[i].kind = "checkCompliance" /\ calls[i].pc = "rejected")
               => alone.threw
            /\ (calls[i].kind = "score" /\ calls[i].pc = "done")
               => calls[i].value = ScoreValue(calls[i].name, layoutData)

\* two calls of checkCompliance with different settings have both ended, the
\* second one started while the first was in its loop, and found Issues
C18_Witness ==
    /\ calls[1].kind = "checkCompliance" /\ calls[1].pc = "done"
    /\ calls[2].kind = "checkCompliance" /\ calls[2].pc = "done"
    /\ calls[1].settings /= calls[2].settings
    /\ Len(calls[1].results.issues) > 0
    /\ Len(calls[2].results.issues) > 0
    /\ calls[1].results /= calls[2].results

(***************************************************************************)
(* Claim about the corridor-width check, under Spec.                       *)
(***************************************************************************)
\* the tables runCodeChecks has gone through
CheckedTables ==
    IF Resolved /\ results.status /= "error" THEN Len(applicableCodes)
    ELSE IF pc = "loop" THEN codeIndex - 1
    ELSE 0

\* the Issues of type 'corridor_width' a table has for the path at `index`
CorridorIssues(codeKey, index) ==
    SelectSeq(results.issues,
              LAMBDA issue : /\ issue.type = "corridor_width"
                             /\ issue.code[1] = codeKey
                             /\ issue.location.index = index)

HasCorridorRule(codeData) == Has(Val(codeData.rules), "corridorWidth")

\* the paths of the layout narrower than `minimum` inches
NarrowPaths(minimum) ==
    {i \in 1..Len(CirculationPaths) : CirculationPaths[i].width * 12 < minimum}

\* C20: for each resolved table with corridorWidth and each circulation path,
\* checkCompliance counts one check and adds a critical 'corridor_width' Issue with
\* code <codeId>_CORRIDOR_WIDTH, actual = path.width * 12 and required = the table
\* minimum exactly when path.width * 12 is strictly below the minimum; a path at
\* the minimum passes.
C20_CorridorWidthCheck ==
    /\ \A t \in 1..CheckedTables :
          HasCorridorRule(applicableCodes[t])
          => LET codeKey == applicableCodes[t].key
                 minimum == Val(applicableCodes[t].rules).corridorWidth.minimum
             IN  \A i \in 1..Len(CirculationPaths) :
                    CorridorIssues(codeKey, i) =
                        IF CirculationPaths[i].width * 12 < minimum
                        THEN << [type |-> "corridor_width", severity |-> "critical",
                                 code |-> <<codeKey, "CORRIDOR_WIDTH">>,
                                 location |-> PathLocation("Path", i, CirculationPaths[i]),
                                 required |-> minimum,
                                 actual |-> CirculationPaths[i].width * 12,
                                 unit |-> "inches"] >>
                        ELSE << >>
    /\ (pc = "loop" /\ codeIndex <= Len(applicableCodes)
          /\ IsDefined(applicableCodes[codeIndex].rules)
          /\ HasCorridorRule(applicableCodes[codeIndex])
          /\ IsDefined(layoutData.circulation))
       => LET codeData == applicableCodes[codeIndex]
              minimum == Val(codeData.rules).corridorWidth.minimum
              after == CorridorWidthChecks(CirculationPaths, Val(codeData.rules),
                                           codeData.key, results, 1)
              failed == Cardinality(NarrowPaths(minimum))
          IN  /\ after.summary.totalChecks
                 = results.summary.totalChecks + Len(CirculationPaths)
              /\ after.summary.failed = results.summary.failed + failed
              /\ after.summary.passed
                 = results.summary.passed + Len(CirculationPaths) - failed
              /\ Len(after.issues) = Len(results.issues) + failed

\* under IBC and ADA a path of 3 ft fails IBC (36 < 44) and passes ADA at exactly
\* its minimum (36), next to a path of 2 ft that fails both
C20_Witness ==
    /\ Resolved
    /\ IsSettings("US", <<"IBC", "ADA">>)
    /\ Len(CirculationPaths) = 2
    /\ CirculationPaths[1].width = 3
    /\ CirculationPaths[2].width = 2
    /\ Len(CorridorIssues("IBC", 1)) = 1
    /\ CorridorIssues("IBC", 1)[1].actual = 36
    /\ CorridorIssues("IBC", 1)[1].required = 44
    /\ CorridorIssues("ADA", 1) = << >>
    /\ Len(CorridorIssues("ADA", 2)) = 1

(***************************************************************************)
(* Layout generation (aiService).  A brief is a string; ScheduleKeywords   *)
(* is the set of the substrings tested by generateFallbackLayout that      *)
(* scheduleData.toLowerCase() contains.                                    *)
(***************************************************************************)
ScheduleKeywords(brief) ==
    CASE brief = "Open office with a meeting room"          -> {"office", "meeting"}
      [] brief = "Office, Meeting room, Kitchen, Reception" ->
            {"office", "meeting", "kitchen", "reception"}
      [] brief = "A break room"                              -> {"break"}
      [] brief = "Kitchen with breakfast bar"                -> {"kitchen", "break"}
      [] brief = "Reception and meeting room"                -> {"meeting", "reception"}
      [] brief = "RECEPTION"                                 -> {"reception"}
      [] brief = "Two bedrooms and a bathroom"               -> {}
      [] brief = ""                                          -> {}
      [] OTHER                                               -> {}

\* text.includes(word)
TextIncludes(brief, word) == word \in ScheduleKeywords(brief)

\* lines 147-153: a path of 6 ft from each room to the next
FallbackCirculation(rooms) ==
    [i \in 1..(Len(rooms) - 1) |-> Path(rooms[i].id, rooms[i + 1].id, 6)]

\* generateFallbackLayout for a string: the value {rooms, circulation}
generateFallbackLayout(brief) ==
    LET hasOffice == TextIncludes(brief, "office")
        hasMeeting == TextIncludes(brief, "meeting")
        \* currentX and currentY after the office and after the meeting room
        currentX == IF hasOffice THEN 50 + 550 ELSE 50
        currentY == IF hasMeeting THEN 50 + 300 ELSE 50
        rooms ==
            (IF hasOffice
             THEN <<Room("office_main", "Main Office Space", 600, 50, 50, 500, 400)>>
             ELSE << >>)
            \o (IF hasMeeting
                THEN <<Room("meeting_room", "Meeting Room", 200, currentX, 50, 300, 250)>>
                ELSE << >>)
            \o (IF TextIncludes(brief, "kitchen") \/ TextIncludes(brief, "break")
                THEN <<Room("kitchen", "Kitchen/Break Room", 150, currentX, currentY,
                            250, 200)>>
                ELSE << >>)
            \o (IF TextIncludes(brief, "reception")
                THEN <<Room("reception", "Reception", 120, 50, currentY + 250, 300, 150)>>
                ELSE << >>)
    IN  [rooms |-> Some(rooms), circulation |-> Some(FallbackCirculation(rooms))]

\* what a catch block comes to: [threw, layout]
Resolves(layout) == [threw |-> FALSE, layout |-> Some(layout)]
Rejects == [threw |-> TRUE, layout |-> Undefined]

\* mutant: a failure of the remote call is passed on to the caller
CatchApiError_Rethrows(schedule) == Rejects

\* lines 75-80 and 67-72: return generateFallbackLayout(scheduleData), which
\* throws on scheduleData.toLowerCase() when scheduleData is no string
CatchApiError(schedule) ==
    IF IsDefined(schedule) THEN Resolves(generateFallbackLayout(Val(schedule)))
    ELSE Rejects

\* the text is JSON: JSON.parse returns, else it throws a SyntaxError
IsJson(text) == text.t = "object"

\* the remote call failed or its answer has no choices[0].message.content
ApiFailed(r) == r.kind /= "text"

\* lines 62-80 of generateLayoutFromSchedule, the remote call come to `r`
LayoutOfResponse(schedule, r) ==
    IF ApiFailed(r) THEN CatchApiError(schedule)
    ELSE IF IsJson(r.text) THEN Resolves(LayoutOfJson(r.text))
    ELSE CatchApiError(schedule)

(***************************************************************************)
(* SpecGenerate: one call of generateLayoutFromSchedule(scheduleData,      *)
(* normSettings).                                                          *)
(*   pc = "start"     called                                               *)
(*   pc = "awaiting"  at the await of the remote call                      *)
(*   pc = "settled"   the remote call has come to `response`               *)
(*   pc = "done"      resolved with `generated`                            *)
(*   pc = "rejected"  rejected                                             *)
(***************************************************************************)
Briefs ==
    {"Open office with a meeting room", "Office, Meeting room, Kitchen, Reception",
     "A break room", "Kitchen with breakfast bar", "Reception and meeting room",
     "RECEPTION", "Two bedrooms and a bathroom", ""}

\* a string, or undefined: no string
Schedules == {Undefined} \cup {Some(brief) : brief \in Briefs}

\* what the remote call can come to: a rejection, an answer without choices, an
\* answer whose text is no JSON, an answer whose text is the JSON of a layout
Responses ==
    {[kind |-> "rejected"], [kind |-> "no choices"],
     [kind |-> "text", text |-> [t |-> "prose"]],
     [kind |-> "text", text |-> [t |-> "fenced json"]]}
    \cup {[kind |-> "text", text |-> JsonOfLayout(layout)] : layout \in ExportLayouts}

InitGenerate ==
    /\ scheduleData \in Schedules
    /\ response = Undefined
    /\ generated = Undefined
    /\ pc = "start"
    /\ layoutData = [rooms |-> Undefined, circulation |-> Undefined]
    /\ IdleCompliance
    /\ IdleMetrics
    /\ IdleExport
    /\ IdleObjects
    /\ IdleConcurrent
    /\ IdleOthers

\* lines 11-59: build the prompt, call openai.chat.completions.create, await
GenerateRequest ==
    /\ pc = "start"
    /\ pc' = "awaiting"
    /\ UNCHANGED <<layoutData, complianceVars, metricsVars, exportVars, objectVars, calls,
                   generationVars, otherVars>>

\* the remote call settles
RemoteSettles ==
    /\ pc = "awaiting"
    /\ response' \in {Some(r) : r \in Responses}
    /\ pc' = "settled"
    /\ UNCHANGED <<layoutData, complianceVars, metricsVars, exportVars, objectVars, calls,
                   scheduleData, generated, otherVars>>

\* lines 62-80
GenerateReturn ==
    /\ pc = "settled"
    /\ LET r == LayoutOfResponse(scheduleData, Val(response))
       IN  /\ generated' = r.layout
           /\ pc' = IF r.threw THEN "rejected" ELSE "done"
    /\ UNCHANGED <<layoutData, complianceVars, metricsVars, exportVars, objectVars, calls,
                   scheduleData, response, otherVars>>

NextGenerate ==
    \/ GenerateRequest
    \/ RemoteSettles
    \/ GenerateReturn

SpecGenerate == InitGenerate /\ [][NextGenerate]_vars

\* the remote call failed, or its text is no JSON
NeedsFallback ==
    /\ IsDefined(response)
    /\ Val(response).kind = "text" => Val(response).text.t /= "object"

\* the rooms the placeholder has for a brief, by what the brief mentions
ExpectedFallbackIds(brief) ==
    (IF "office" \in ScheduleKeywords(brief) THEN <<"office_main">> ELSE << >>)
    \o (IF "meeting" \in ScheduleKeywords(brief) THEN <<"meeting_room">> ELSE << >>)
    \o (IF {"kitchen", "break"} \cap ScheduleKeywords(brief) /= {}
        THEN <<"kitchen">> ELSE << >>)
    \o (IF "reception" \in ScheduleKeywords(brief) THEN <<"reception">> ELSE << >>)

\* C19: with a string scheduleData the call is never rejected; when the remote
\* call fails or its text is no JSON, it resolves to the placeholder, which is a
\* function of scheduleData alone: the rooms the brief mentions, in the fixed
\* order, none when it mentions none, and a path of 6 ft from each room to the
\* next.
C19_AlwaysResolves ==
    IsDefined(scheduleData)
    => /\ pc /= "rejected"
       /\ (pc = "done" /\ NeedsFallback)
          => /\ generated = Some(generateFallbackLayout(Val(scheduleData)))
             /\ LET layout == Val(generated)
                    rooms == Val(layout.rooms)
                    paths == Val(layout.circulation)
                    ids == ExpectedFallbackIds(Val(scheduleData))
                IN  /\ Len(rooms) = Len(ids)
                    /\ \A i \in 1..Len(rooms) : rooms[i].id = ids[i]
                    /\ Len(paths) = Max(0, Len(rooms) - 1)
                    /\ \A i \in 1..Len(paths) :
                          paths[i] = Path(ids[i], ids[i + 1], 6)

\* the remote call was rejected and the call resolved to a placeholder of no rooms
C19_Witness ==
    /\ pc = "done"
    /\ scheduleData = Some("Two bedrooms and a bathroom")
    /\ response = Some([kind |-> "rejected"])
    /\ generated = Some([rooms |-> Some(<< >>), circulation |-> Some(<< >>)])

(***************************************************************************)
(* Claim about the door-width check, under Spec.                           *)
(***************************************************************************)
HasDoorRule(codeData) ==
    Has(Val(codeData.rules), "doorWidth") \/ Has(Val(codeData.rules), "exitWidth")

\* rules.doorWidth.minimum when present, else rules.exitWidth.minimum
DoorThreshold(codeData) ==
    IF Has(Val(codeData.rules), "doorWidth") THEN Val(codeData.rules).doorWidth.minimum
    ELSE Val(codeData.rules).exitWidth.minimum

\* min(path.width * 12, 36)
EffectiveDoorWidth(path) ==
    IF path.width * 12 < 36 THEN path.width * 12 ELSE 36

\* the Issues of type 'door_width' a table has for the path at `index`
DoorIssues(codeKey, index) ==
    SelectSeq(results.issues,
              LAMBDA issue : /\ issue.type = "door_width"
                             /\ issue.code[1] = codeKey
                             /\ issue.location.index = index)

\* the paths of the layout whose door is narrower than `threshold`
NarrowDoors(threshold) ==
    {i \in 1..Len(CirculationPaths) : EffectiveDoorWidth(CirculationPaths[i]) < threshold}

\* C21: for each resolved table with doorWidth or exitWidth every circulation path
\* is checked as one door of min(path.width * 12, 36) inches against
\* rules.doorWidth.minimum when present, else rules.exitWidth.minimum; a critical
\* 'door_width' Issue is added exactly when the door is below that threshold, and
\* a table with neither rule adds no door check.
C21_DoorWidthCheck ==
    /\ \A t \in 1..CheckedTables :
          LET codeData == applicableCodes[t]
          IN  \A i \in 1..Len(CirculationPaths) :
                 DoorIssues(codeData.key, i) =
                     IF HasDoorRule(codeData)
                        /\ EffectiveDoorWidth(CirculationPaths[i]) < DoorThreshold(codeData)
                     THEN << [type |-> "door_width", severity |-> "critical",
                              code |-> <<codeData.key, "DOOR_WIDTH">>,
                              location |-> PathLocation("Door", i, CirculationPaths[i]),
                              required |-> DoorThreshold(codeData),
                              actual |-> EffectiveDoorWidth(CirculationPaths[i]),
                              unit |-> "inches"] >>
                     ELSE << >>
    /\ (pc = "loop" /\ codeIndex <= Len(applicableCodes)
          /\ IsDefined(applicableCodes[codeIndex].rules)
          /\ IsDefined(layoutData.circulation))
       => LET codeData == applicableCodes[codeIndex]
              after == checkDoorWidths(layoutData, Val(codeData.rules), codeData.key,
                                       results).results
              whole == runCodeChecks(layoutData, codeData, results).results
          IN  IF HasDoorRule(codeData)
              THEN LET failed == Cardinality(NarrowDoors(DoorThreshold(codeData)))
                   IN  /\ after.summary.totalChecks
                          = results.summary.totalChecks + Len(CirculationPaths)
                       /\ after.summary.failed = results.summary.failed + failed
                       /\ after.summary.passed
                          = results.summary.passed + Len(CirculationPaths) - failed
              ELSE /\ whole.summary.totalChecks
                      = results.summary.totalChecks
                        + ExecutedChecks(codeData)
                   /\ \A i \in 1..Len(whole.issues) : whole.issues[i].type /= "door_width"
                   /\ Has(Val(codeData.rules), "corridorWidth")
                      \/ whole.summary = results.summary

\* under NBC, which has exitWidth only, a path of 4 ft is a door of 36 in and a
\* path of 2 ft a door of 24 in, both below the threshold
C21_Witness ==
    /\ Resolved
    /\ IsSettings("CA", <<"NBC">>)
    /\ Len(CirculationPaths) = 2
    /\ CirculationPaths[1].width = 4
    /\ CirculationPaths[2].width = 2
    /\ Len(DoorIssues("NBC", 1)) = 1
    /\ DoorIssues("NBC", 1)[1].actual = 36
    /\ DoorIssues("NBC", 1)[1].required = 850
    /\ Len(DoorIssues("NBC", 2)) = 1
    /\ DoorIssues("NBC", 2)[1].actual = 24

(***************************************************************************)
(* Claim about the turning-space check, under Spec.                        *)
(***************************************************************************)
\* the table has an accessibility block with turningSpace
HasTurningRule(codeData) ==
    /\ Has(Val(codeData.rules), "accessibility")
    /\ Has(Val(codeData.rules).accessibility, "turningSpace")

TurningNames == {"restroom", "bathroom", "office", "meeting", "conference"}

\* the rooms named `name` that lack the turning area of a diameter of
\* `turningSpace` inches: area < (turningSpace / 12)^2, in square inches
RoomsLackingTurningSpace(name, turningSpace) ==
    {r \in 1..Len(LayoutRooms) :
        /\ LayoutRooms[r].name = name
        /\ Keywords(name) \cap TurningNames /= {}
        /\ 144 * LayoutRooms[r].area < turningSpace * turningSpace}

\* the Warnings a table has for the rooms named `name`
TurningWarnings(codeKey, name) ==
    SelectSeq(results.warnings,
              LAMBDA warning : warning.code[1] = codeKey /\ warning.location.name = name)

\* C22: when a resolved table has an accessibility block with turningSpace, each
\* room gets one turning-space check, which gives a Warning (in warnings, never in
\* issues, counted in summary.warnings) exactly when the name of the room matches
\* restroom, bathroom, office, meeting or conference and room.area is below
\* (turningSpace / 12)^2 sq ft; otherwise the check counts as passed.
C22_TurningSpaceCheck ==
    /\ \A t \in 1..CheckedTables :
          LET codeData == applicableCodes[t]
          IN  \A r \in 1..Len(LayoutRooms) :
                 LET name == LayoutRooms[r].name
                     found == TurningWarnings(codeData.key, name)
                 IN  IF HasTurningRule(codeData)
                     THEN LET turningSpace == Val(codeData.rules).accessibility.turningSpace
                          IN  /\ Len(found)
                                 = Cardinality(RoomsLackingTurningSpace(name, turningSpace))
                              /\ \A w \in 1..Len(found) :
                                    found[w] =
                                        [type |-> "turning_space", severity |-> "warning",
                                         code |-> <<codeData.key, "TURNING_SPACE">>,
                                         location |-> RoomLocation(LayoutRooms[r]),
                                         recommendation |-> turningSpace]
                     ELSE found = << >>
    /\ \A i \in 1..Len(results.issues) : results.issues[i].type /= "turning_space"
    /\ (pc = "loop" \/ Resolved) => results.summary.warnings = Len(results.warnings)
    /\ (pc = "loop" /\ codeIndex <= Len(applicableCodes)
          /\ IsDefined(applicableCodes[codeIndex].rules)
          /\ HasTurningRule(applicableCodes[codeIndex])
          /\ IsDefined(layoutData.rooms))
       => LET codeData == applicableCodes[codeIndex]
              accessibilityRules == Val(codeData.rules).accessibility
              after == TurningSpaceChecks(LayoutRooms, accessibilityRules, codeData.key,
                                          results, 1)
              warned ==
                  Cardinality({r \in 1..Len(LayoutRooms) :
                      r \in RoomsLackingTurningSpace(LayoutRooms[r].name,
                                                     accessibilityRules.turningSpace)})
          IN  /\ after.summary.totalChecks = results.summary.totalChecks + Len(LayoutRooms)
              /\ after.summary.warnings = results.summary.warnings + warned
              /\ after.summary.passed
                 = results.summary.passed + Len(LayoutRooms) - warned
              /\ after.summary.failed = results.summary.failed
              /\ after.issues = results.issues
              /\ Len(after.warnings) = Len(results.warnings) + warned

\* under IBC (turningSpace 60 in, 25 sq ft) an office of 20 sq ft gets the Warning
\* and an office of exactly 25 sq ft does not
C22_Witness ==
    /\ Resolved
    /\ IsSettings("US", <<"IBC">>)
    /\ Len(LayoutRooms) = 2
    /\ LayoutRooms[1].name = "Office" /\ LayoutRooms[1].area = 20
    /\ LayoutRooms[2].name = "Office" /\ LayoutRooms[2].area = 25
    /\ Len(results.warnings) = 1
    /\ results.warnings[1].code = <<"IBC", "TURNING_SPACE">>
    /\ results.summary.warnings = 1

(***************************************************************************)
(* Claim about calculateAccessibilityScore, under SpecMetrics.             *)
(***************************************************************************)
\* the paths narrower than the default minimum corridor width of 4 ft
FailedPaths == {i \in 1..Len(CirculationPaths) : CirculationPaths[i].width < 4}

\* the rooms no path of at least 4 ft starts or ends at
FailedRooms ==
    {r \in 1..Len(LayoutRooms) :
        ~\E i \in 1..Len(CirculationPaths) :
            /\ LayoutRooms[r].id \in {CirculationPaths[i].from, CirculationPaths[i].to}
            /\ CirculationPaths[i].width >= 4}

AccessChecks == Len(CirculationPaths) + Len(LayoutRooms)

AccessFailures == Cardinality(FailedPaths) + Cardinality(FailedRooms)

\* score is x rounded to the nearest integer, halves up, for x = p / q, q > 0
IsRounded(score, p, q) == 2 * p - q < 2 * q * score /\ 2 * q * score <= 2 * p + q

MaxAdjacencyRooms == 3

\* <<x, y, width, height>>
AdjacencyKinds ==
    {<<x, y, 3, 4>> : x \in {0, 3, 7}, y \in {0, 2, 4}}
    \cup {<<0, 0, 100, 100>>, <<100, 0, 100, 100>>}

SizedRoom(i, kind) ==
    Room(RoomIds[i], "Office", kind[3] * kind[4], kind[1], kind[2], kind[3], kind[4])

AdjacencyRooms ==
    UNION {{[i \in 1..n |-> SizedRoom(i, kinds[i])] : kinds \in [1..n -> AdjacencyKinds]} :
              n \in 0..MaxAdjacencyRooms}

InitAdjacency ==
    /\ layoutData \in {[rooms |-> Some(rooms), circulation |-> Some(<< >>)] :
                          rooms \in AdjacencyRooms}
    /\ adjacency = Undefined
    /\ pc = "start"
    /\ IdleCompliance
    /\ IdleMetrics
    /\ IdleExport
    /\ IdleObjects
    /\ IdleConcurrent
    /\ IdleGeneration
    /\ IdleReport
    /\ IdleStore
    /\ IdleDownload

\* lines 299-328
CallCalculateAdjacencyScore ==
    /\ pc = "start"
    /\ adjacency' = Some(calculateAdjacencyScore(Val(layoutData.rooms)))
    /\ pc' = "done"
    /\ UNCHANGED <<layoutData, complianceVars, metricsVars, exportVars, objectVars, calls,
                   generationVars, report, phase, item, storeVars, download>>

NextAdjacency == CallCalculateAdjacencyScore

SpecAdjacency == InitAdjacency /\ [][NextAdjacency]_vars

\* the length of what the intervals [a1, a2] and [b1, b2] have in common
OverlapLength(a1, a2, b1, b2) == Min(a2, b2) - Max(a1, b1)

\* one room's right edge is the other's left edge and they overlap in y with
\* positive length, or one's bottom edge is the other's top edge and they overlap
\* in x with positive length
SharesWall(a, b) ==
    \/ /\ a.x + a.width = b.x \/ b.x + b.width = a.x
       /\ OverlapLength(a.y, a.y + a.height, b.y, b.y + b.height) > 0
    \/ /\ a.y + a.height = b.y \/ b.y + b.height = a.y
       /\ OverlapLength(a.x, a.x + a.width, b.x, b.x + b.width) > 0

\* the unordered pairs of rooms that share a wall
WallPairs(rooms) ==
    {pair \in SUBSET (1..Len(rooms)) :
        /\ Cardinality(pair) = 2
        /\ \E i \in pair : \E j \in pair \ {i} : SharesWall(rooms[i], rooms[j])}

\* the orders of n rooms
Orders(n) == {f \in [1..n -> 1..n] : \A i \in 1..n : \E j \in 1..n : f[j] = i}

\* C24: calculateAdjacencyScore counts an unordered pair of rooms iff one room's
\* right (bottom) edge is the other's left (top) edge and their extents along that
\* edge overlap with positive length, so not the pairs that touch at a corner or
\* lie apart; the result is adjacentPairs / (n choose 2), the same for every order
\* of the rooms, in [0, 1], and 0 for fewer than two rooms.  The rooms
\* {x: 0, y: 0, w: 100, h: 100} and {x: 100, y: 0, w: 100, h: 100} are adjacent.
C24_AdjacencyScore ==
    IsDefined(adjacency)
    => LET rooms == LayoutRooms
           n == Len(rooms)
           score == Val(adjacency)
       IN  /\ IF n < 2 THEN score = <<0, 1>>
              ELSE score = <<Cardinality(WallPairs(rooms)), (n * (n - 1)) \div 2>>
           /\ 0 <= score[1] /\ score[1] <= score[2]
           /\ \A order \in Orders(n) :
                 calculateAdjacencyScore([i \in 1..n |-> rooms[order[i]]]) = score
           /\ (n = 2 /\ rooms[1].x = 0 /\ rooms[1].width = 100 /\ rooms[2].x = 100)
              => score = <<1, 1>>

\* three rooms: the first two share part of a wall, the third touches the first
\* at a corner and lies partly on the second, so one pair of three is adjacent
C24_Witness ==
    /\ pc = "done"
    /\ Len(LayoutRooms) = 3
    /\ <<LayoutRooms[1].x, LayoutRooms[1].y>> = <<0, 0>>
    /\ <<LayoutRooms[2].x, LayoutRooms[2].y>> = <<3, 2>>
    /\ <<LayoutRooms[3].x, LayoutRooms[3].y>> = <<3, 4>>
    /\ LayoutRooms[3].width = 3
    /\ adjacency = Some(<<1, 3>>)

(***************************************************************************)
(* Compliance report.  A recommendation is {priority, title, description,  *)
(* action}; of its description, a text around typeIssues.length, the model *)
(* keeps that number as `count`.  A step of nextSteps is its text.         *)
(***************************************************************************)
\* the m for which Math.round(m / 200 * 100), an exact half, is rounded down:
\* the product is the double just below the half (0.145 * 100 is
\* 14.499999999999998)
HalvesRoundedDown == {29, 57, 113, 115}

\* mutant: the quotient is truncated
MathRoundPercent_Truncated(p, q) == (100 * p) \div q

\* Math.round((p / q) * 100) in double arithmetic, 0 <= p <= q, q > 0
MathRoundPercent(p, q) ==
    IF \E m \in HalvesRoundedDown : 200 * p = m * q
    THEN (100 * p) \div q
    ELSE RoundDiv(100 * p, q)

\* Object.keys(issuesByType): the types of the issues, each once, in the order
\* in which they first occur
IssueTypes(issues) ==
    LET firsts == {i \in 1..Len(issues) :
                      \A j \in 1..(i - 1) : issues[j].type /= issues[i].type}
        Nth(k) == CHOOSE i \in firsts : Cardinality({j \in firsts : j < i}) = k - 1
    IN  [k \in 1..Cardinality(firsts) |-> issues[Nth(k)].type]

\* issuesByType[type].length
IssuesOfType(issues, type) ==
    Cardinality({i \in 1..Len(issues) : issues[i].type = type})

\* the switch of generateComplianceRecommendations: what is pushed for a type
RecommendationsFor(type, count) ==
    CASE type = "corridor_width" ->
            << [priority |-> "high", title |-> "Increase Corridor Widths", count |-> count,
                action |-> "Modify layout to increase corridor widths or redesign circulation paths"] >>
      [] type = "room_area" ->
            << [priority |-> "high", title |-> "Increase Room Sizes", count |-> count,
                action |-> "Increase room dimensions or combine adjacent spaces"] >>
      [] type = "accessibility_route" ->
            << [priority |-> "critical", title |-> "Improve Accessibility", count |-> count,
                action |-> "Ensure all routes meet ADA width requirements"] >>
      [] OTHER -> << >>

generateComplianceRecommendations(issues, warnings) ==
    LET types == IssueTypes(issues)
    IN  Flatten([k \in 1..Len(types) |->
                    RecommendationsFor(types[k], IssuesOfType(issues, types[k]))], 1)

RemediationSteps ==
    <<"Address all critical compliance issues before proceeding",
      "Review and modify layout design to meet code requirements",
      "Re-run compliance check after making changes">>

ReviewSteps ==
    <<"Review warning items and consider addressing them",
      "Verify compliance with local amendments to building codes",
      "Consider consulting with a local architect or code official">>

CompliantSteps ==
    <<"Layout appears to meet basic code requirements",
      "Verify with local building department for any additional requirements",
      "Consider professional review before final design">>

generateNextSteps(status, issues) ==
    IF status = "non-compliant" THEN RemediationSteps
    ELSE IF status = "warning" THEN ReviewSteps
    ELSE CompliantSteps

generateComplianceReport(complianceResults) ==
    LET summary == complianceResults.summary
    IN  [status |-> complianceResults.status,
         summary |->
            [totalChecks |-> summary.totalChecks, passed |-> summary.passed,
             failed |-> summary.failed, warnings |-> summary.warnings,
             complianceRate |->
                IF summary.totalChecks > 0
                THEN MathRoundPercent(summary.passed, summary.totalChecks)
                ELSE 100],
         criticalIssues |->
            SelectSeq(complianceResults.issues, LAMBDA issue : issue.severity = "critical"),
         warnings |-> complianceResults.warnings,
         recommendations |->
            generateComplianceRecommendations(complianceResults.issues,
                                              complianceResults.warnings),
         nextSteps |-> generateNextSteps(complianceResults.status, complianceResults.issues)]

(***************************************************************************)
(* SpecReport: a call of checkCompliance, then generateComplianceReport on *)
(* what it returned.  The layouts have a run of paths of 4 ft, which pass  *)
(* every check of the US tables, and then at most one narrower path.       *)
(* runCodeChecks is gone through one element of a forEach at a step:       *)
(* `phase` is the group of checks it is at, in the order of the code, and  *)
(* `item` the index of the next element.                                   *)
(*   pc = "reported"  generateComplianceReport has returned `report`       *)
(***************************************************************************)
MaxWidePaths == 40

\* `n` paths of 4 ft
WidePaths(n) == [i \in 1..n |-> Path("r1", "r2", 4)]

ReportCirculations ==
    {WidePaths(n) \o tail :
        n \in {0, 1, 2, MaxWidePaths},
        tail \in {<< >>, <<Path("r1", "r2", 3)>>, <<Path("r1", "r2", 2)>>}}

ReportRooms ==
    {<< >>, <<RowRoom(1, <<"Office", 20>>)>>, <<RowRoom(1, <<"Office", 80>>)>>}

ReportLayouts ==
    {[rooms |-> Some(rooms), circulation |-> c] :
        rooms \in ReportRooms,
        c \in {Undefined} \cup {Some(circulation) : circulation \in ReportCirculations}}

\* the groups of checks of runCodeChecks, in the order of the code
Phases == <<"corridors", "rooms", "routes", "turning", "doors">>

PhaseAfter(p) == Phases[1 + CHOOSE k \in 1..(Len(Phases) - 1) : Phases[k] = p]

\* the condition under which the forEach of a group is reached
PhaseApplies(p, layout, rules) ==
    CASE p = "corridors" -> Has(rules, "corridorWidth") /\ IsDefined(layout.circulation)
      [] p = "rooms" -> Has(rules, "roomArea") /\ IsDefined(layout.rooms)
      [] p = "routes" -> /\ Has(rules, "accessibility") /\ IsDefined(layout.rooms)
                         /\ Has(rules.accessibility, "corridorWidth")
                         /\ IsDefined(layout.circulation)
      [] p = "turning" -> /\ Has(rules, "accessibility") /\ IsDefined(layout.rooms)
                          /\ Has(rules.accessibility, "turningSpace")
      [] p = "doors" -> Has(rules, "doorWidth") \/ Has(rules, "exitWidth")

\* the array the forEach of a group goes through
PhaseItems(p, layout) ==
    IF p \in {"rooms", "turning"} THEN layout.rooms ELSE layout.circulation

\* the callback of the forEach of a group, for the element at `index`
PhaseCheck(p, elements, rules, codeKey, res, index) ==
    LET upTo == SubSeq(elements, 1, index)
    IN  CASE p = "corridors" -> CorridorWidthChecks(upTo, rules, codeKey, res, index)
          [] p = "rooms" -> RoomAreaChecks(upTo, rules, codeKey, res, index)
          [] p = "routes" ->
                AccessibleRouteChecks(upTo, rules.accessibility, codeKey, res, index)
          [] p = "turning" ->
                TurningSpaceChecks(upTo, rules.accessibility, codeKey, res, index)
          [] p = "doors" -> DoorWidthChecks(upTo, rules, codeKey, res, index)

InitReport ==
    /\ layoutData \in ReportLayouts
    /\ codeSettings \in CodeSettings
    /\ pc = "start"
    /\ applicableCodes = << >>
    /\ codeIndex = 0
    /\ results = NewResults
    /\ IdleReport
    /\ IdleMetrics
    /\ IdleExport
    /\ IdleObjects
    /\ IdleConcurrent
    /\ IdleGeneration
    /\ IdleAdjacency
    /\ IdleStore
    /\ IdleDownload

\* runCodeChecks called with a codeData that has no rules: line 174 throws
RulesMissing ==
    /\ pc = "loop"
    /\ codeIndex <= Len(applicableCodes)
    /\ ~IsDefined(applicableCodes[codeIndex].rules)
    /\ pc' = "rejected"
    /\ UNCHANGED <<layoutData, complianceVars, metricsVars, exportVars, objectVars, calls,
                   generationVars, adjacency, report, phase, item, storeVars, download>>

\* one call of the callback of the forEach of the group `phase`; in the group
\* "doors" circulation.forEach throws when there is no circulation
CheckItem ==
    /\ pc = "loop"
    /\ codeIndex <= Len(applicableCodes)
    /\ IsDefined(applicableCodes[codeIndex].rules)
    /\ LET codeData == applicableCodes[codeIndex]
           rules == Val(codeData.rules)
           elements == PhaseItems(phase, layoutData)
       IN  /\ PhaseApplies(phase, layoutData, rules)
           /\ IF ~IsDefined(elements)
              THEN /\ pc' = "rejected"
                   /\ UNCHANGED <<results, item>>
              ELSE /\ item <= Len(Val(elements))
                   /\ results' = PhaseCheck(phase, Val(elements), rules, codeData.key,
                                            results, item)
                   /\ item' = item + 1
                   /\ pc' = pc
    /\ UNCHANGED <<layoutData, codeSettings, applicableCodes, codeIndex, metricsVars,
                   exportVars, objectVars, calls, generationVars, adjacency, report, phase,
                   storeVars, download>>

\* the forEach of the group is over, or the group does not apply: on to the next
\* group, and after the last to the next table
EndOfPhase ==
    /\ pc = "loop"
    /\ codeIndex <= Len(applicableCodes)
    /\ IsDefined(applicableCodes[codeIndex].rules)
    /\ LET rules == Val(applicableCodes[codeIndex].rules)
           elements == PhaseItems(phase, layoutData)
       IN  \/ ~PhaseApplies(phase, layoutData, rules)
           \/ IsDefined(elements) /\ item > Len(Val(elements))
    /\ item' = 1
    /\ IF phase = "doors"
       THEN phase' = "corridors" /\ codeIndex' = codeIndex + 1
       ELSE phase' = PhaseAfter(phase) /\ codeIndex' = codeIndex
    /\ UNCHANGED <<layoutData, pc, codeSettings, applicableCodes, results, metricsVars,
                   exportVars, objectVars, calls, generationVars, adjacency, report,
                   storeVars, download>>

\* generateComplianceReport(results), results what checkCompliance resolved to
CallGenerateComplianceReport ==
    /\ pc = "done"
    /\ report' = Some(generateComplianceReport(results))
    /\ pc' = "reported"
    /\ UNCHANGED <<layoutData, complianceVars, metricsVars, exportVars, objectVars, calls,
                   generationVars, adjacency, phase, item, storeVars, download>>

NextReport ==
    \/ CheckComplianceStart
    \/ RulesMissing
    \/ CheckItem
    \/ EndOfPhase
    \/ CheckComplianceReturn
    \/ CallGenerateComplianceReport

SpecReport == InitReport /\ [][NextReport]_vars

\* for a layout of few paths, what the steps have made of `results` is what
\* checkCompliance returns
SameAsCheckCompliance ==
    (pc \in {"done", "reported", "rejected"} /\ Len(CirculationPaths) <= 3)
    => LET r == checkCompliance(layoutData, codeSettings)
       IN  /\ r.threw <=> pc = "rejected"
           /\ ~r.threw => results = r.results

Reported == pc = "reported"

ComplianceRate == Val(report).summary.complianceRate

\* rate is 100 * passed / totalChecks rounded to a nearest integer
IsNearestPercent(rate, passed, totalChecks) ==
    /\ 200 * passed - totalChecks <= 2 * totalChecks * rate
    /\ 2 * totalChecks * rate <= 200 * passed + totalChecks

\* C25 as stated: complianceRate is round(100 * passed / totalChecks), 100 when
\* totalChecks is 0; for every result of checkCompliance it is an integer in
\* 0..100 and is 100 only if no check failed or warned.
C25_FullRateOnlyIfClean ==
    Reported
    => /\ IF results.summary.totalChecks = 0 THEN ComplianceRate = 100
          ELSE IsNearestPercent(ComplianceRate, results.summary.passed,
                                results.summary.totalChecks)
       /\ ComplianceRate \in 0..100
       /\ ComplianceRate = 100
          => results.summary.failed = 0 /\ results.summary.warnings = 0

\* C25 amended: complianceRate is 100 * passed / totalChecks rounded to a nearest
\* integer, 100 when totalChecks is 0; for every result of checkCompliance it is
\* an integer in 0..100, and it is 100 exactly when totalChecks is 0 or at least
\* 99.5 % of the checks passed, so for fewer than 200 checks only if no check
\* failed or warned.
C25_FullRateFromHalfPercent ==
    Reported
    => LET passed == results.summary.passed
           totalChecks == results.summary.totalChecks
       IN  /\ IF totalChecks = 0 THEN ComplianceRate = 100
              ELSE IsNearestPercent(ComplianceRate, passed, totalChecks)
           /\ ComplianceRate \in 0..100
           /\ ComplianceRate = 100 <=> 200 * passed >= 199 * totalChecks
           /\ (ComplianceRate = 100 /\ totalChecks < 200)
              => results.summary.failed = 0 /\ results.summary.warnings = 0
           /\ Val(report).summary.totalChecks = totalChecks
           /\ Val(report).summary.passed = passed

\* MaxWidePaths paths of 4 ft and one of 3 ft under IBC and ADA: of the 5 checks
\* of each path only the IBC corridor check of the last fails (36 in < 44 in), and
\* the rate of 204 of 205 is 100
C25_Witness ==
    /\ Reported
    /\ IsSettings("US", <<"IBC", "ADA">>)
    /\ layoutData.rooms = Some(<< >>)
    /\ Len(CirculationPaths) = MaxWidePaths + 1
    /\ results.summary.totalChecks = 5 * (MaxWidePaths + 1)
    /\ results.summary.failed = 1
    /\ results.status = "non-compliant"
    /\ ComplianceRate = 100

\* the types of issue generateComplianceRecommendations has a record for
RecommendedTypes == {"corridor_width", "room_area", "accessibility_route"}

RecommendationTitles ==
    [corridor_width |-> "Increase Corridor Widths", room_area |-> "Increase Room Sizes",
     accessibility_route |-> "Improve Accessibility"]

\* C26: nextSteps depends on status alone and is one of three fixed scripts of
\* three steps: the remediation script for 'non-compliant', the review script for
\* 'warning', and the 'appears to meet basic code requirements' script only for
\* 'compliant'; recommendations has at most one record for each of the issue types
\* corridor_width, room_area and accessibility_route, and none for another type.
C26_NextStepsByStatus ==
    Reported
    => LET status == Val(report).status
           nextSteps == Val(report).nextSteps
           recommendations == Val(report).recommendations
       IN  /\ nextSteps \in {RemediationSteps, ReviewSteps, CompliantSteps}
           /\ Len(nextSteps) = 3
           /\ status = "non-compliant" => nextSteps = RemediationSteps
           /\ status = "warning" => nextSteps = ReviewSteps
           /\ nextSteps = CompliantSteps => status = "compliant"
           /\ \A type \in RecommendedTypes :
                 Cardinality({k \in 1..Len(recommendations) :
                                 recommendations[k].title = RecommendationTitles[type]})
                 = IF \E i \in 1..Len(results.issues) : results.issues[i].type = type
                   THEN 1 ELSE 0
           /\ \A k \in 1..Len(recommendations) :
                 \E type \in RecommendedTypes :
                    recommendations[k].title = RecommendationTitles[type]

(***************************************************************************)
(* Claims about the statuses checkCompliance returns, under Spec.          *)
(***************************************************************************)
\* C27: with the built-in tables checkCompliance never returns status 'warning':
\* every Issue of a check is critical, so a result other than the configuration
\* error is 'non-compliant' exactly when it has an Issue and 'compliant'
\* otherwise, whatever its warnings; the statuses returned are compliant,
\* non-compliant and error.
C27_NeverWarningStatus ==
    Resolved
    => /\ results.status \in {"compliant", "non-compliant", "error"}
       /\ results.status /= "error"
          => /\ \A i \in 1..Len(results.issues) : results.issues[i].severity = "critical"
             /\ results.status = "non-compliant" <=> results.issues /= << >>
             /\ results.status = "compliant" <=> results.issues = << >>

\* a result with a Warning: it has an Issue too and is 'non-compliant'
C27_Witness ==
    /\ Resolved
    /\ results.warnings /= << >>
    /\ results.issues /= << >>
    /\ \A i \in 1..Len(results.issues) : results.issues[i].severity = "critical"
    /\ results.status = "non-compliant"

\* C28: under {country: 'CA', codes: ['NBC']} every layout with a circulation
\* path is 'non-compliant' whatever the widths: the door check compares inches,
\* at most 36, with the 850 of the table, so every path has a critical
\* NBC_DOOR_WIDTH Issue; a layout without paths is 'compliant' with no checks.
C28_NbcAlwaysFails ==
    (Resolved /\ IsSettings("CA", <<"NBC">>))
    => IF Len(CirculationPaths) > 0
       THEN /\ results.status = "non-compliant"
            /\ \A p \in 1..Len(CirculationPaths) :
                  \E i \in 1..Len(results.issues) :
                     /\ results.issues[i].code = <<"NBC", "DOOR_WIDTH">>
                     /\ results.issues[i].severity = "critical"
                     /\ results.issues[i].location.index = p
                     /\ results.issues[i].required = 850
                     /\ results.issues[i].actual <= 36
       ELSE /\ results.status = "compliant"
            /\ results.summary.totalChecks = 0
            /\ results.issues = << >>

\* a single path of 4 ft, wide enough for every US table, fails under NBC
C28_Witness ==
    /\ Resolved
    /\ IsSettings("CA", <<"NBC">>)
    /\ layoutData.circulation = Some(<<Path("r1", "r2", 4)>>)
    /\ results.status = "non-compliant"
    /\ \E i \in 1..Len(results.issues) :
          /\ results.issues[i].code = <<"NBC", "DOOR_WIDTH">>
          /\ results.issues[i].actual = 36

(***************************************************************************)
(* SpecStore: one run of ProjectUploader.onSubmit(data) against the store. *)
(* The clock is that of Date.now(): it may advance between any two steps   *)
(* of the handler, the two reads of it included.  Of a record of the store *)
(* the model keeps the fields that identify it.                            *)
(*   pc = "start"     onSubmit called                                      *)
(*   pc = "added"     addProject(project) has returned                     *)
(*   pc = "awaiting"  projectId is read, generateLayoutFromSchedule is at  *)
(*                    the await of the remote call                         *)
(*   pc = "settled"   the remote call has come to `response`               *)
(*   pc = "done"      addLayout(layout) and onClose() have returned        *)
(*   pc = "caught"    the catch of onSubmit has run                        *)
(***************************************************************************)
\* the first value of Date.now() and the number of milliseconds that may pass
FirstNow == 1000
MaxTicks == 2

\* data.projectName
ProjectNames == {"Tower", "Annex"}

\* a template literal `${prefix}${Date.now()}`
StampedId(prefix, now) == <<prefix, now>>

\* useStore.js, addProject
addProject(state, project, now) ==
    [state EXCEPT !.projects =
        Append(@, [id |-> StampedId("project-", now), name |-> project.name])]

\* useStore.js, addLayout
addLayout(state, layout, now) ==
    [state EXCEPT !.layouts =
        Append(@, [id |-> StampedId("layout-", now), projectId |-> layout.projectId,
                   name |-> layout.name, version |-> layout.version])]

\* useStore.js, getProjectLayouts
getProjectLayouts(state, id) ==
    SelectSeq(state.layouts, LAMBDA layout : layout.projectId = id)

InitStore ==
    /\ clock = FirstNow
    /\ store = InitialStore
    /\ projectId = Undefined
    /\ data \in {Some([projectName |-> n, scheduleData |-> s]) :
                    n \in ProjectNames, s \in Schedules}
    /\ pc = "start"
    /\ layoutData = [rooms |-> Undefined, circulation |-> Undefined]
    /\ IdleCompliance
    /\ IdleMetrics
    /\ IdleExport
    /\ IdleObjects
    /\ IdleGeneration
    /\ IdleConcurrent
    /\ IdleAdjacency
    /\ IdleReport
    /\ IdleDownload

\* a millisecond passes while onSubmit is under way
Tick ==
    /\ pc \in {"start", "added", "awaiting", "settled"}
    /\ clock < FirstNow + MaxTicks
    /\ clock' = clock + 1
    /\ UNCHANGED <<layoutData, pc, complianceVars, metricsVars, exportVars, objectVars,
                   calls, generationVars, adjacency, report, phase, item, store,
                   projectId, data, download>>

\* part_002 lines 54-66: addProject(project), which reads Date.now() for the id
SubmitAddProject ==
    /\ pc = "start"
    /\ store' = addProject(store, [name |-> Val(data).projectName], clock)
    /\ pc' = "added"
    /\ UNCHANGED <<layoutData, complianceVars, metricsVars, exportVars, objectVars,
                   calls, generationVars, adjacency, report, phase, item, clock,
                   projectId, data, download>>

\* part_002 lines 67-70: projectId from a read of Date.now() of its own, then the
\* call of generateLayoutFromSchedule up to its await
SubmitReadProjectId ==
    /\ pc = "added"
    /\ projectId' = Some(StampedId("project-", clock))
    /\ scheduleData' = Val(data).scheduleData
    /\ pc' = "awaiting"
    /\ UNCHANGED <<layoutData, complianceVars, metricsVars, exportVars, objectVars,
                   calls, response, generated, adjacency, report, phase, item, clock,
                   store, data, download>>

\* part_002 lines 70-92: generateLayoutFromSchedule settles; resolved, the layout
\* goes to the store under projectId, rejected, the catch runs
SubmitAddLayout ==
    /\ pc = "settled"
    /\ LET r == LayoutOfResponse(scheduleData, Val(response))
       IN  /\ generated' = r.layout
           /\ IF r.threw
              THEN pc' = "caught" /\ store' = store
              ELSE /\ pc' = "done"
                   /\ store' = addLayout(store,
                                         [projectId |-> Val(projectId),
                                          name |-> "AI Generated Layout",
                                          version |-> 1],
                                         clock)
    /\ UNCHANGED <<layoutData, complianceVars, metricsVars, exportVars, objectVars,
                   calls, scheduleData, response, adjacency, report, phase, item,
                   clock, projectId, data, download>>

NextStore ==
    \/ Tick
    \/ SubmitAddProject
    \/ SubmitReadProjectId
    \/ RemoteSettles
    \/ SubmitAddLayout

SpecStore == InitStore /\ [][NextStore]_vars

\* the project and the layout onSubmit added: the last of each array
AddedProject == store.projects[Len(store.projects)]
AddedLayout == store.layouts[Len(store.layouts)]

\* C29: once onSubmit has completed without error the layout it added has the id
\* of the project it added as projectId, and getProjectLayouts of that id has the
\* layout, however the clock advanced between the two reads of Date.now().
C29_LayoutBelongsToProject ==
    pc = "done"
    => /\ AddedLayout.projectId = AddedProject.id
       /\ \E i \in 1..Len(getProjectLayouts(store, AddedProject.id)) :
             getProjectLayouts(store, AddedProject.id)[i] = AddedLayout

(***************************************************************************)
(* SpecDownload: one call of downloadLayoutFile(layoutData, projectInfo,   *)
(* format).  exportMultipleFormats is an async function without an await:  *)
(* called, it runs to its end and returns a promise, fulfilled with the    *)
(* record of results or rejected; downloadLayoutFile goes on with the      *)
(* promise itself.                                                         *)
(*   pc = "start", "loop"     in exportMultipleFormats                     *)
(*   pc = "done", "rejected"  exportMultipleFormats has returned a promise *)
(*   pc = "returned"          downloadLayoutFile has returned              *)
(*   pc = "threw"             downloadLayoutFile has thrown                *)
(***************************************************************************)
\* the members of a Promise that a format name can hit
PromiseKeys == {"then", "catch", "finally"} \cup ObjectPrototypeKeys

\* the format argument: a name, or a name of a member of Promise
DownloadFormats == FormatNames \cup {"then", "constructor"}

\* promise[key] of a promise: its own properties are none, whatever it is settled
\* with
PromiseMember(key) ==
    IF key \in PromiseKeys THEN Some([t |-> "function"]) ELSE Undefined

\* value.success as a condition
SuccessOf(value) == IF Has(value, "success") THEN value.success ELSE FALSE

\* value.error
ErrorOf(value) == IF Has(value, "error") THEN Some(value.error) ELSE Undefined

\* value.filename
FilenameOf(value) == IF Has(value, "filename") THEN Some(value.filename) ELSE Undefined

InitDownload ==
    /\ layoutData \in ExportLayouts
    /\ projectInfo \in ProjectInfos
    /\ formats \in {<<format>> : format \in DownloadFormats}
    /\ formatIndex = 0
    /\ exportResults = << >>
    /\ pc = "start"
    /\ download = Undefined
    /\ IdleCompliance
    /\ IdleMetrics
    /\ IdleObjects
    /\ IdleConcurrent
    /\ IdleGeneration
    /\ IdleAdjacency
    /\ IdleReport
    /\ IdleStore

\* exportService.js lines 581-588: result = results[format] of the promise, then
\* the test of result.success
DownloadReadResult ==
    /\ pc \in {"done", "rejected"}
    /\ LET result == PromiseMember(formats[1])
       IN  IF ~IsDefined(result)
           THEN /\ download' = Some([threw |-> TRUE, error |-> "TypeError"])
                /\ pc' = "threw"
           ELSE /\ download' =
                      Some(IF SuccessOf(Val(result))
                           THEN [threw |-> FALSE, success |-> TRUE,
                                 filename |-> FilenameOf(Val(result))]
                           ELSE [threw |-> FALSE, success |-> FALSE,
                                 error |-> ErrorOf(Val(result))])
                /\ pc' = "returned"
    /\ UNCHANGED <<layoutData, complianceVars, metricsVars, exportVars, objectVars,
                   calls, generationVars, adjacency, report, phase, item, storeVars>>

NextDownload ==
    \/ ExportStart
    \/ ExportFormatStep
    \/ ExportReturn
    \/ DownloadReadResult

SpecDownload == InitDownload /\ [][NextDownload]_vars

\* C30: downloadLayoutFile does not throw; for a supported format whose export
\* succeeded it returns {success: true, filename} with the filename of the
\* record exportMultipleFormats produced, and for an unsupported format
\* {success: false, error} with the error of that record.
C30_DownloadReturnsRecord ==
    pc \in {"returned", "threw"}
    => /\ pc = "returned"
       /\ ~Val(download).threw
       /\ Has(exportResults, formats[1])
          => LET record == exportResults[formats[1]]
             IN  IF record.success
                 THEN /\ Val(download).success
                      /\ Val(download).filename = Some(record.filename)
                 ELSE /\ ~Val(download).success
                      /\ Val(download).error = Some(record.error)

====
